---- MODULE Spec2Model ----
(***************************************************************************)
(* The indentation-delimited document reader of Magic Set Editor           *)
(* (util/io/reader.cpp): line scanner, line parser, block cursor and value *)
(* collection, as a state machine over one forward-only byte stream.       *)
(*                                                                         *)
(* Text is a sequence of one-character strings.  A byte of the stream is a *)
(* one-character string too, except the three bytes of the UTF-8 byte      *)
(* order mark ("EF", "BB", "BF") and one byte that is never valid UTF-8    *)
(* ("FF").                                                                 *)
(***************************************************************************)
EXTENDS Integers, Sequences, FiniteSets, TLC

VARIABLES
  rd,           \* the Reader object: its fields, and the stream it is bound to
  queue,        \* the application's message queue (queue_message)
  app_version,  \* the running application's version (global app_version)
  phase,        \* "new": members initialised, constructor body not yet run; "open"
  doc,          \* history: the document the stream was built from
  last,         \* history: the last public call, its result and the reader before it
  open,         \* history: the blocks the caller has entered and not yet exited
  carry,        \* history: the text of a getValue() that was followed by unhandle()
  obj,          \* the caller's object: the fields it has read so far
  pc            \* the operation in progress: its frames, steps taken, last result

vars == <<rd, queue, app_version, phase, doc, last, open, carry, obj, pc>>

(***************************************************************************)
(* Characters and bytes                                                    *)
(***************************************************************************)
TAB == "\t"
SPC == " "
LF  == "\n"
CR  == "\r"
COLON == ":"
HASH  == "#"
BOM1 == "EF"
BOM2 == "BB"
BOM3 == "BF"
BADBYTE == "FF"
FEFF == "FEFF"    \* the character U+FEFF, which EF BB BF decodes to

NoError == ""

Min(a, b) == IF a < b THEN a ELSE b

(***************************************************************************)
(* String helpers of the repository's util/string                          *)
(***************************************************************************)
IsSpace(c) == c \in {SPC, TAB}

RECURSIVE trim_left(_)
trim_left(s) ==
  IF s = <<>> THEN s
  ELSE IF IsSpace(Head(s)) THEN trim_left(Tail(s)) ELSE s

RECURSIVE trim_right(_)
trim_right(s) ==
  IF s = <<>> THEN s
  ELSE IF IsSpace(s[Len(s)]) THEN trim_right(SubSeq(s, 1, Len(s) - 1)) ELSE s

trim(s) == trim_right(trim_left(s))

starts_with(s, p) == Len(s) >= Len(p) /\ SubSeq(s, 1, Len(p)) = p

\* s.substr(pos): the text from the 0-based position pos on
substr_from(s, pos) == SubSeq(s, pos + 1, Len(s))

\* s.substr(pos, n)
substr(s, pos, n) == SubSeq(s, pos + 1, Min(Len(s), pos + n))

LowerCase(c) ==
  CASE c = "A" -> "a"
    [] c = "B" -> "b"
    [] OTHER -> c

\* Canonical form of a key: case normalised
canonical_name_form(s) == [i \in 1..Len(s) |-> LowerCase(s[i])]

EightSpaces == <<SPC, SPC, SPC, SPC, SPC, SPC, SPC, SPC>>

\* F(v) with v evaluated once: every intermediate result of a method is bound
\* this way before it is used
Let(v, F(_)) == CHOOSE y \in {F(x) : x \in {v}} : TRUE

(***************************************************************************)
(* Line scanner                                                            *)
(***************************************************************************)
\* fault: a CR ends the line and a following LF is left in the stream
RECURSIVE read_bytes_cr_alone(_, _, _)
read_bytes_cr_alone(input, eof, buffer) ==
  IF input = <<>> THEN [buffer |-> buffer, input |-> <<>>, eof |-> TRUE]
  ELSE IF Head(input) \in {LF, CR} THEN [buffer |-> buffer, input |-> Tail(input), eof |-> eof]
  ELSE Let(Tail(input), LAMBDA rest :
       Let(Append(buffer, Head(input)), LAMBDA buf : read_bytes_cr_alone(rest, eof, buf)))

\* The loop of read_utf8_line on the stream [input, eof]; GetC() on an
\* exhausted stream returns EOF and sets the stream's end-of-file condition.
RECURSIVE read_bytes(_, _, _)
read_bytes(input, eof, buffer) ==
  IF input = <<>> THEN [buffer |-> buffer, input |-> <<>>, eof |-> TRUE]
  ELSE IF Head(input) = LF THEN [buffer |-> buffer, input |-> Tail(input), eof |-> eof]
  ELSE IF Head(input) = CR THEN
    IF Len(input) = 1 THEN [buffer |-> buffer, input |-> <<>>, eof |-> TRUE]
    ELSE IF input[2] = LF
      THEN [buffer |-> buffer, input |-> SubSeq(input, 3, Len(input)), eof |-> eof]
      ELSE [buffer |-> buffer, input |-> Tail(input), eof |-> eof]
  ELSE Let(Tail(input), LAMBDA rest :
       Let(Append(buffer, Head(input)), LAMBDA buf : read_bytes(rest, eof, buf)))

\* wxConvUTF8.ToWChar succeeds
RECURSIVE ValidUTF8(_)
ValidUTF8(b) ==
  IF b = <<>> THEN TRUE
  ELSE IF Head(b) = BOM1
    THEN Len(b) >= 3 /\ b[2] = BOM2 /\ b[3] = BOM3
         /\ Let(SubSeq(b, 4, Len(b)), LAMBDA rest : ValidUTF8(rest))
    ELSE Head(b) \notin {BOM2, BOM3, BADBYTE} /\ Let(Tail(b), LAMBDA rest : ValidUTF8(rest))

\* wxString::FromUTF8 on a valid buffer
RECURSIVE FromUTF8(_)
FromUTF8(b) ==
  IF b = <<>> THEN <<>>
  ELSE IF Head(b) = BOM1
    THEN <<FEFF>> \o Let(SubSeq(b, 4, Len(b)), LAMBDA rest : FromUTF8(rest))
    ELSE <<Head(b)>> \o Let(Tail(b), LAMBDA rest : FromUTF8(rest))

\* [line, input, eof, ok]: ok is FALSE where the code throws ParseError
read_utf8_line(input, eof) ==
  Let(read_bytes(input, eof, <<>>), LAMBDA got :
    Let(ValidUTF8(got.buffer), LAMBDA valid :
      [line  |-> IF valid THEN FromUTF8(got.buffer) ELSE <<>>,
       input |-> got.input,
       eof   |-> got.eof,
       ok    |-> valid]))

\* Eat a UTF-8 byte order mark: [input, eof, eaten]
eat_utf8_bom(in, eof) ==
  IF in = <<>> THEN [input |-> <<>>, eof |-> TRUE, eaten |-> FALSE]
  ELSE IF in[1] /= BOM1 THEN [input |-> in, eof |-> eof, eaten |-> FALSE]
  ELSE IF Len(in) = 1 THEN [input |-> <<>>, eof |-> TRUE, eaten |-> FALSE]
  ELSE IF in[2] /= BOM2
    THEN [input |-> SubSeq(in, 2, Len(in)), eof |-> eof, eaten |-> FALSE]
  ELSE IF Len(in) = 2 THEN [input |-> <<>>, eof |-> TRUE, eaten |-> FALSE]
  ELSE IF in[3] /= BOM3
    THEN [input |-> SubSeq(in, 3, Len(in)), eof |-> eof, eaten |-> FALSE]
  ELSE [input |-> SubSeq(in, 4, Len(in)), eof |-> eof, eaten |-> TRUE]

(***************************************************************************)
(* Line parser                                                             *)
(***************************************************************************)
Ok(r) == r.error = NoError

\* the loop counting leading tabs
RECURSIVE count_tabs(_, _)
count_tabs(line, n) ==
  IF n < Len(line) /\ line[n + 1] = TAB THEN count_tabs(line, n + 1) ELSE n

\* line.find_first_not_of(" \t") == npos
only_blanks(line) == \A i \in 1..Len(line) : IsSpace(line[i])

\* line.find_first_of(':', from): a 0-based position, or -1 for npos
RECURSIVE find_colon(_, _)
find_colon(line, from) ==
  IF from >= Len(line) THEN -1
  ELSE IF line[from + 1] = COLON THEN from ELSE find_colon(line, from + 1)

\* the repair loop: [key, indent] after every leading group of 8 spaces became a level
\* fault: the eight spaces are removed but not counted as a level
RECURSIVE fix_spaces_no_level(_, _)
fix_spaces_no_level(key, indent) ==
  IF starts_with(key, EightSpaces)
    THEN Let(substr_from(key, 8), LAMBDA rest : fix_spaces_no_level(rest, indent))
    ELSE [key |-> key, indent |-> indent]

RECURSIVE fix_spaces(_, _)
fix_spaces(key, indent) ==
  IF starts_with(key, EightSpaces)
    THEN Let(substr_from(key, 8), LAMBDA rest : fix_spaces(rest, indent + 1))
    ELSE [key |-> key, indent |-> indent]

\* Reader::warning with line_number_delta and warn_on_previous_line
warning(r, kind, text, delta, on_previous) ==
  [r EXCEPT !.warnings =
     Append(@, [line |-> (IF on_previous THEN r.previous_line_number ELSE r.line_number) + delta,
                kind |-> kind,
                text |-> text])]

\* readLine from "read key / value" on, for a line that is no blank line or comment;
\* r has the line and its count of tabs already
read_key_value(r, tabs, pos, key0, in_string) ==
  LET spaced == ~r.ignore_invalid /\ ~in_string /\ starts_with(key0, <<SPC>>)
      fix    == IF spaced THEN fix_spaces(key0, tabs) ELSE [key |-> key0, indent |-> tabs]
      key1   == canonical_name_form(trim(fix.key))
      warn_c == ~r.ignore_invalid /\ ~in_string /\ pos = -1
  IN Let(IF spaced THEN warning(r, "only use TABs", key0, 0, FALSE) ELSE r, LAMBDA r1 :
     Let(IF warn_c THEN warning(r1, "Missing ':'", <<>>, 0, FALSE) ELSE r1, LAMBDA r2 :
       [r2 EXCEPT !.indent = fix.indent,
                  !.value = IF pos = -1 THEN <<>>
                                        ELSE trim_left(substr_from(r.line, pos + 1)),
                  !.key = IF key1 = <<>> /\ pos /= -1 THEN <<SPC>> ELSE key1]))

readLine(r, in_string) ==
  Let(read_utf8_line(r.input, r.eof), LAMBDA got :
    IF ~got.ok
      THEN [r EXCEPT !.line_number = @ + 1, !.input = got.input, !.eof = got.eof,
                     !.in_string = in_string, !.error = "Invalid UTF-8 sequence"]
      ELSE
        Let(count_tabs(got.line, 0), LAMBDA tabs :
        Let([r EXCEPT !.line_number = @ + 1, !.input = got.input, !.eof = got.eof,
                      !.in_string = in_string, !.line = got.line, !.indent = tabs],
            LAMBDA r1 :
          IF only_blanks(got.line) \/ got.line[tabs + 1] = HASH
            THEN [r1 EXCEPT !.key = <<>>]
            ELSE
              Let(find_colon(got.line, tabs), LAMBDA pos :
              Let(IF pos = -1 THEN substr_from(got.line, tabs)
                              ELSE substr(got.line, tabs, pos - tabs),
                  LAMBDA key0 : read_key_value(r1, tabs, pos, key0, in_string))))))

(***************************************************************************)
(* Block cursor                                                            *)
(***************************************************************************)
\* the loop of moveNext: repeat until we have a good line
RECURSIVE read_until_key(_)
read_until_key(r) ==
  IF Ok(r) /\ r.key = <<>> /\ ~r.eof
    THEN Let(readLine(r, FALSE), LAMBDA r1 : read_until_key(r1))
    ELSE r

\* fault: the end of the stream does not set the sentinel indentation
at_end_of_file_keep_indent(r) ==
  IF Ok(r) /\ r.key = <<>> /\ r.eof
    THEN [r EXCEPT !.line_number = @ + 1]
    ELSE r

\* did we reach the end of the file?
at_end_of_file(r) ==
  IF Ok(r) /\ r.key = <<>> /\ r.eof
    THEN [r EXCEPT !.line_number = @ + 1, !.indent = -1]
    ELSE r

moveNext(r) ==
  Let([r EXCEPT !.previous_line_number = r.line_number,
                !.state = "HANDLED",
                !.key = <<>>,
                !.indent = -1], LAMBDA r1 :
  Let(read_until_key(r1), LAMBDA r2 : at_end_of_file(r2)))

\* fault: a block is entered also when there is no line left
enterAnyBlock_at_end(r) ==
  Let(IF r.state = "ENTERED" THEN moveNext(r) ELSE r, LAMBDA r1 :
    IF ~Ok(r1) THEN [r |-> r1, ret |-> FALSE]
    ELSE IF r1.indent \notin {r1.expected_indent, -1} THEN [r |-> r1, ret |-> FALSE]
    ELSE [r |-> [r1 EXCEPT !.state = "ENTERED", !.expected_indent = @ + 1], ret |-> TRUE])

\* [r, ret]
enterAnyBlock(r) ==
  Let(IF r.state = "ENTERED" THEN moveNext(r) ELSE r, LAMBDA r1 :
    IF ~Ok(r1) THEN [r |-> r1, ret |-> FALSE]
    ELSE IF r1.indent /= r1.expected_indent THEN [r |-> r1, ret |-> FALSE]
    ELSE [r |-> [r1 EXCEPT !.state = "ENTERED", !.expected_indent = @ + 1], ret |-> TRUE])

\* fault: a key of another name is marked as entered
enterBlock_mark_entered(r, name) ==
  Let(IF r.state = "ENTERED" THEN moveNext(r) ELSE r, LAMBDA r1 :
    IF ~Ok(r1) THEN [r |-> r1, ret |-> FALSE]
    ELSE IF r1.indent /= r1.expected_indent THEN [r |-> r1, ret |-> FALSE]
    ELSE IF r1.key = name
      THEN [r |-> [r1 EXCEPT !.state = "ENTERED", !.expected_indent = @ + 1], ret |-> TRUE]
      ELSE [r |-> [r1 EXCEPT !.state = "ENTERED"], ret |-> FALSE])

\* [r, ret]
enterBlock(r, name) ==
  Let(IF r.state = "ENTERED" THEN moveNext(r) ELSE r, LAMBDA r1 :
    IF ~Ok(r1) THEN [r |-> r1, ret |-> FALSE]
    ELSE IF r1.indent /= r1.expected_indent THEN [r |-> r1, ret |-> FALSE]
    ELSE IF r1.key = name
      THEN [r |-> [r1 EXCEPT !.state = "ENTERED", !.expected_indent = @ + 1], ret |-> TRUE]
      ELSE [r |-> r1, ret |-> FALSE])

\* Dump the remainder of the block
RECURSIVE dump_block(_)
dump_block(r) ==
  IF Ok(r) /\ r.indent > r.expected_indent
    THEN Let(moveNext(r), LAMBDA r1 : dump_block(r1))
    ELSE r

\* fault: the expected level is not restored
exitBlock_keep_level(r) ==
  Let([r EXCEPT !.previous_value = <<>>], LAMBDA r1 :
  Let(IF r.state = "ENTERED" THEN moveNext(r1) ELSE r1, LAMBDA r2 :
  Let(dump_block(r2), LAMBDA r3 :
    IF Ok(r3) THEN [r3 EXCEPT !.state = "HANDLED"] ELSE r3)))

\* asserts expected_indent > 0 and state != UNHANDLED
exitBlock(r) ==
  Let([r EXCEPT !.expected_indent = @ - 1, !.previous_value = <<>>], LAMBDA r1 :
  Let(IF r.state = "ENTERED" THEN moveNext(r1) ELSE r1, LAMBDA r2 :
  Let(dump_block(r2), LAMBDA r3 :
    IF Ok(r3) THEN [r3 EXCEPT !.state = "HANDLED"] ELSE r3)))

\* do { moveNext(); } while (indent > expected_indent);
RECURSIVE skip_key(_)
skip_key(r) ==
  Let(moveNext(r), LAMBDA r1 :
    IF Ok(r1) /\ r1.indent > r1.expected_indent THEN skip_key(r1) ELSE r1)

\* fault: the key is skipped without a warning
unknownKey_silent(r) ==
  IF r.ignore_invalid THEN skip_key(r)
  ELSE IF r.indent >= r.expected_indent THEN skip_key(r)
  ELSE r

unknownKey(r) ==
  IF r.ignore_invalid THEN skip_key(r)
  ELSE IF r.indent >= r.expected_indent
    THEN Let(warning(r, "Unexpected key", r.key, 0, FALSE), LAMBDA r1 : skip_key(r1))
    ELSE r

\* asserts state == HANDLED
unhandle(r) == [r EXCEPT !.state = "UNHANDLED"]

(***************************************************************************)
(* Value collection                                                        *)
(***************************************************************************)
\* do { readLine(true); pending_newlines++; }
\* while (trim(line).empty() && indent < expected_indent && !input.Eof());
RECURSIVE next_text_line(_, _)
next_text_line(r, pending) ==
  Let(readLine(r, TRUE), LAMBDA r1 :
    IF Ok(r1) /\ trim(r1.line) = <<>> /\ r1.indent < r1.expected_indent /\ ~r1.eof
      THEN next_text_line(r1, pending + 1)
      ELSE [r |-> r1, pending |-> pending + 1])

\* while (indent >= expected_indent && !input.Eof()) { ... }
RECURSIVE collect_text(_, _)
collect_text(r, pending) ==
  IF Ok(r) /\ r.indent >= r.expected_indent /\ ~r.eof
    THEN Let([r EXCEPT !.previous_value =
                 @ \o [i \in 1..pending |-> LF] \o substr_from(r.line, r.expected_indent)],
             LAMBDA r1 :
         Let(next_text_line(r1, 0), LAMBDA c : collect_text(c.r, c.pending)))
    ELSE r

BlankLineWarning == "Blank line or comment in text block, that is insufficiently indented"

\* moveNext(), but without the initial readLine(), and the warning after it
finish_text(r) ==
  IF ~Ok(r) THEN r
  ELSE Let([r EXCEPT !.state = "HANDLED"], LAMBDA r1 :
       Let(read_until_key(r1), LAMBDA r2 :
       Let(at_end_of_file(r2), LAMBDA r3 :
         IF Ok(r3) /\ r3.indent >= r3.expected_indent
           THEN warning(r3, BlankLineWarning, <<>>, -1, FALSE)
           ELSE r3)))

\* the branch of getValue for a multi-line string
getValue_multiline(r) ==
  Let(readLine([r EXCEPT !.previous_value = <<>>], TRUE), LAMBDA r1 :
    IF ~Ok(r1) THEN r1
    ELSE Let([r1 EXCEPT !.previous_line_number = r1.line_number], LAMBDA r2 :
         Let(collect_text(r2, 0), LAMBDA r3 : finish_text(r3))))

\* fault: the value handed back is read as a new value
getValue_reads_again(r) ==
  IF r.value = <<>> THEN getValue_multiline(r)
  ELSE moveNext([r EXCEPT !.previous_value = r.value])

\* asserts state != HANDLED; the text returned is previous_value of the result
getValue(r) ==
  IF r.state = "UNHANDLED" THEN [r EXCEPT !.state = "HANDLED"]
  ELSE IF r.value = <<>> THEN getValue_multiline(r)
  ELSE moveNext([r EXCEPT !.previous_value = r.value])

(***************************************************************************)
(* Versioning and diagnostics                                              *)
(***************************************************************************)
DigitValue(c) ==
  CASE c = "0" -> 0 [] c = "1" -> 1 [] c = "2" -> 2 [] c = "3" -> 3 [] c = "4" -> 4
    [] c = "5" -> 5 [] c = "6" -> 6 [] c = "7" -> 7 [] c = "8" -> 8 [] c = "9" -> 9
    [] OTHER -> -1

RECURSIVE digits_value(_, _)
digits_value(s, acc) ==
  IF s = <<>> THEN acc
  ELSE Let(acc * 10 + DigitValue(Head(s)), LAMBDA v :
       Let(Tail(s), LAMBDA rest : digits_value(rest, v)))

\* the version token of a document: its decimal number, 0 when it is none
version_from_string(s) ==
  IF s /= <<>> /\ \A i \in 1..Len(s) : DigitValue(s[i]) >= 0 THEN digits_value(s, 0) ELSE 0

\* handle(file_app_version)
handle_version(r) ==
  Let(getValue(r), LAMBDA r1 :
    IF Ok(r1) THEN [r1 EXCEPT !.file_app_version = version_from_string(r1.previous_value)]
              ELSE r1)

MseVersion == <<"m", "s", "e", "_", "v", "e", "r", "s", "i", "o", "n">>

\* [r, queue]
handleAppVersion(r, q, app) ==
  Let(enterBlock(r, MseVersion), LAMBDA e :
    IF ~e.ret THEN [r |-> e.r, queue |-> q]
    ELSE Let(handle_version(e.r), LAMBDA r1 :
           IF ~Ok(r1) THEN [r |-> r1, queue |-> q]
           ELSE [r |-> exitBlock(r1),
                 queue |-> IF app < r1.file_app_version
                             THEN Append(q, [type |-> "newer version",
                                             text |-> <<r1.file_app_version>>])
                             ELSE q]))

\* the body of Reader::Reader
Construct(r, q, app) ==
  Let(eat_utf8_bom(r.input, r.eof), LAMBDA b :
  Let(moveNext([r EXCEPT !.input = b.input, !.eof = b.eof]), LAMBDA r1 :
    IF Ok(r1) THEN handleAppVersion(r1, q, app) ELSE [r |-> r1, queue |-> q]))

\* fault: the block is ignored from end_version on
handleIgnore_from_version(r, end_version, a) ==
  IF r.file_app_version >= end_version
    THEN Let(enterBlock(r, a), LAMBDA e : IF e.ret THEN exitBlock(e.r) ELSE e.r)
    ELSE r

handleIgnore(r, end_version, a) ==
  IF r.file_app_version < end_version
    THEN Let(enterBlock(r, a), LAMBDA e : IF e.ret THEN exitBlock(e.r) ELSE e.r)
    ELSE r

\* [r, queue]
showWarnings(r, q) ==
  IF r.warnings /= <<>>
    THEN [r |-> [r EXCEPT !.warnings = <<>>],
          queue |-> Append(q, [type |-> "warnings", text |-> r.warnings])]
    ELSE [r |-> r, queue |-> q]

(***************************************************************************)
(* Documents                                                               *)
(***************************************************************************)
\* The bytes of a document: its lines, each followed by the terminator eol, the
\* last one only when final holds, after the prefix bom.
RECURSIVE JoinLines(_, _, _)
JoinLines(lines, eol, final) ==
  IF lines = <<>> THEN <<>>
  ELSE IF Len(lines) = 1 THEN Head(lines) \o (IF final THEN eol ELSE <<>>)
  ELSE Head(lines) \o eol \o JoinLines(Tail(lines), eol, final)

Bytes(d) == d.bom \o JoinLines(d.lines, d.eol, d.final)

Document(lines, eol, final, bom) ==
  [lines |-> lines, eol |-> eol, final |-> final, bom |-> bom]

\* the lines documents are built from
LineA     == <<"a", COLON>>
LineB_x   == <<"b", COLON, SPC, "x">>
LineTB    == <<TAB, "b", COLON>>
LineTA_x  == <<TAB, "A", COLON, SPC, "x">>
LineTx    == <<TAB, "x">>
LineTTx   == <<TAB, TAB, "x">>
LineBlank == <<>>
LineBad   == <<"b", COLON, SPC, BADBYTE>>
LineVersion2 == MseVersion \o <<COLON, SPC, "2">>

LineSet == {LineA, LineB_x, LineTB, LineTA_x, LineTx, LineTTx, LineBlank}

Names == {<<"a">>, <<"b">>}

\* the versions handleIgnore is asked about
EndVersions == {2, 3}

\* bounds of the model
MaxLines == 3
MaxPastEnd == 1

Bodies(set) == UNION {[1..n -> set] : n \in 0..MaxLines}

(***************************************************************************)
(* The state machine                                                       *)
(***************************************************************************)
\* the member initialisers of Reader::Reader
NewReader(input, ignore_invalid) ==
  [input |-> input, eof |-> FALSE,
   line |-> <<>>, indent |-> 0, expected_indent |-> 0, state |-> "OUTSIDE",
   ignore_invalid |-> ignore_invalid,
   line_number |-> 0, previous_line_number |-> 0,
   key |-> <<>>, value |-> <<>>, previous_value |-> <<>>,
   warnings |-> <<>>, file_app_version |-> 0,
   error |-> NoError, in_string |-> FALSE]

NoBlock == [line |-> 0, exp |-> 0]

Call(op, name, num, ret, blk) ==
  [op |-> op, name |-> name, num |-> num, ret |-> ret, blk |-> blk, pre |-> rd,
   pre_queue |-> queue]

NoCarry == [n |-> 0, text |-> <<>>]

\* no operation in progress
Idle == [stack |-> <<>>, steps |-> 0, ret |-> FALSE]

Start(d, ignore_invalid, app) ==
  /\ doc = d
  /\ rd = NewReader(Bytes(d), ignore_invalid)
  /\ queue = <<>>
  /\ app_version = app
  /\ phase = "new"
  /\ last = [op |-> "none", name |-> <<>>, num |-> 0, ret |-> FALSE, blk |-> NoBlock,
             pre |-> NewReader(Bytes(d), ignore_invalid), pre_queue |-> <<>>]
  /\ open = <<>>
  /\ carry = NoCarry
  /\ obj = <<>>
  /\ pc = Idle

Init ==
  \E body \in Bodies(LineSet), final \in BOOLEAN, lenient \in BOOLEAN :
    /\ body = <<>> => ~final
    /\ Start(Document(body, <<LF>>, final, <<>>), lenient, 2)

Done(r) == phase' = IF Ok(r) THEN "open" ELSE "failed"

DoConstruct ==
  /\ phase = "new"
  /\ LET c == Construct(rd, queue, app_version)
     IN /\ rd' = c.r
        /\ queue' = c.queue
        /\ Done(c.r)
  /\ last' = Call("construct", <<>>, 0, FALSE, NoBlock)
  /\ UNCHANGED <<app_version, doc, open, carry, obj, pc>>

\* the block entered by a successful enter: its key's line and the level before it
Entered(r) == Append(open, [line |-> r.line_number, exp |-> rd.expected_indent])

DoEnterAnyBlock ==
  /\ phase = "open"
  /\ LET e == enterAnyBlock(rd)
     IN /\ rd' = e.r
        /\ Done(e.r)
        /\ last' = Call("enterAnyBlock", <<>>, 0, e.ret, NoBlock)
        /\ open' = IF e.ret THEN Entered(e.r) ELSE open
  /\ carry' = NoCarry
  /\ UNCHANGED <<queue, app_version, doc, obj, pc>>

DoEnterBlock(name) ==
  /\ phase = "open"
  /\ LET e == enterBlock(rd, name)
     IN /\ rd' = e.r
        /\ Done(e.r)
        /\ last' = Call("enterBlock", name, 0, e.ret, NoBlock)
        /\ open' = IF e.ret THEN Entered(e.r) ELSE open
  /\ carry' = NoCarry
  /\ UNCHANGED <<queue, app_version, doc, obj, pc>>

\* exitBlock closes an entered block; its assertions are the caller's obligations
DoExitBlock ==
  /\ phase = "open"
  /\ open /= <<>>
  /\ rd.expected_indent > 0
  /\ rd.state /= "UNHANDLED"
  /\ rd' = exitBlock(rd)
  /\ Done(rd')
  /\ last' = Call("exitBlock", <<>>, 0, FALSE, open[Len(open)])
  /\ open' = SubSeq(open, 1, Len(open) - 1)
  /\ carry' = NoCarry
  /\ UNCHANGED <<queue, app_version, doc, obj, pc>>

\* past the end of the stream every call counts one more line: at most MaxPastEnd
DoUnknownKey ==
  /\ phase = "open"
  /\ rd.line_number <= Len(doc.lines) + MaxPastEnd
  /\ rd' = unknownKey(rd)
  /\ Done(rd')
  /\ last' = Call("unknownKey", <<>>, 0, FALSE, NoBlock)
  /\ carry' = NoCarry
  /\ UNCHANGED <<queue, app_version, doc, open, obj, pc>>

DoUnhandle ==
  /\ phase = "open"
  /\ rd.state = "HANDLED"
  /\ rd' = unhandle(rd)
  /\ last' = Call("unhandle", <<>>, 0, FALSE, NoBlock)
  /\ carry' = IF carry.n \in {1, 3} THEN [n |-> 2, text |-> rd.previous_value]
                                    ELSE NoCarry
  /\ UNCHANGED <<queue, app_version, doc, open, phase, obj, pc>>

DoGetValue ==
  /\ phase = "open"
  /\ rd.state /= "HANDLED"
  /\ rd' = getValue(rd)
  /\ Done(rd')
  /\ last' = Call("getValue", <<>>, 0, FALSE, NoBlock)
  /\ carry' = IF carry.n = 2 THEN [n |-> 3, text |-> carry.text]
                             ELSE [n |-> 1, text |-> <<>>]
  /\ UNCHANGED <<queue, app_version, doc, open, obj, pc>>

DoHandleIgnore(end_version, name) ==
  /\ phase = "open"
  /\ rd' = handleIgnore(rd, end_version, name)
  /\ Done(rd')
  /\ last' = Call("handleIgnore", name, end_version, FALSE, NoBlock)
  /\ carry' = NoCarry
  /\ UNCHANGED <<queue, app_version, doc, open, obj, pc>>

DoShowWarnings ==
  /\ phase = "open"
  /\ LET w == showWarnings(rd, queue)
     IN /\ rd' = w.r
        /\ queue' = w.queue
  /\ last' = Call("showWarnings", <<>>, 0, FALSE, NoBlock)
  /\ carry' = NoCarry
  /\ UNCHANGED <<app_version, doc, open, phase, obj, pc>>

\* the block cursor's operations
Next ==
  \/ DoConstruct
  \/ DoEnterAnyBlock
  \/ \E name \in Names : DoEnterBlock(name)
  \/ DoExitBlock
  \/ DoUnknownKey
  \/ DoUnhandle
  \/ DoGetValue

Spec == Init /\ [][Next]_vars

\* every operation of the reader
NextAll ==
  \/ Next
  \/ \E n \in EndVersions, name \in Names : DoHandleIgnore(n, name)
  \/ DoShowWarnings

\* terminated documents with and without a version block, some with an invalid byte
VersionLineSet == {LineA, LineB_x, LineTx, LineBad}

MaxVersionLines == 2

VersionBodies == UNION {[1..n -> VersionLineSet] : n \in 0..MaxVersionLines}

InitVersion ==
  \E body \in VersionBodies, header \in {<<>>, <<LineVersion2>>},
     lenient \in BOOLEAN, app \in {1, 2} :
    /\ header \o body /= <<>>
    /\ Start(Document(header \o body, <<LF>>, TRUE, <<>>), lenient, app)

SpecVersion == InitVersion /\ [][NextAll]_vars

\* a key line indented by tabs and then spaces, alone or after the key "a:"
Repeat(c, n) == [i \in 1..n |-> c]

MaxTabs == 2
MaxSpaces == 17

InitSpaces ==
  \E t \in 0..MaxTabs, sp \in 0..MaxSpaces, rest \in {LineB_x, <<"b">>},
     first \in {<<>>, <<LineA>>}, final \in BOOLEAN, lenient \in BOOLEAN :
    Start(Document(first \o <<Repeat(TAB, t) \o Repeat(SPC, sp) \o rest>>, <<LF>>, final, <<>>),
          lenient, 2)

SpecSpaces == InitSpaces /\ [][Next]_vars

\* the example document of the format
ExampleLines ==
  << MseVersion \o <<COLON, SPC, "2", "0", "0", "0", "0", "0", "0">>,
     <<"n", "a", "m", "e", COLON, SPC, "E", "x", "a", "m", "p", "l", "e">>,
     <<"d", "e", "s", "c", "r", "i", "p", "t", "i", "o", "n", COLON>>,
     <<TAB, "L", "i", "n", "e", SPC, "o", "n", "e">>,
     <<TAB, "L", "i", "n", "e", SPC, "t", "w", "o">> >>

FieldName == <<"n", "a", "m", "e">>
FieldDescription == <<"d", "e", "s", "c", "r", "i", "p", "t", "i", "o", "n">>

\* reader.handle(name, field) for a text field:
\* if (enterBlock(name)) { field = getValue(); exitBlock(); }
handle_field(r, name) ==
  Let(enterBlock(r, name), LAMBDA e :
    IF ~e.ret THEN [r |-> e.r, ret |-> FALSE, text |-> <<>>]
    ELSE Let(getValue(e.r), LAMBDA r1 :
           IF ~Ok(r1) THEN [r |-> r1, ret |-> FALSE, text |-> <<>>]
           ELSE [r |-> exitBlock(r1), ret |-> TRUE, text |-> r1.previous_value]))

DoReadField(name) ==
  /\ phase = "open"
  /\ LET h == handle_field(rd, name)
     IN /\ rd' = h.r
        /\ Done(h.r)
        /\ last' = Call("readField", name, 0, h.ret, NoBlock)
        /\ obj' = IF h.ret THEN (name :> h.text) @@ obj ELSE obj
  /\ carry' = NoCarry
  /\ UNCHANGED <<queue, app_version, doc, open, pc>>

ExampleVersion == 2000000

InitExample ==
  \E eol \in {<<LF>>, <<CR>>, <<CR, LF>>}, final \in BOOLEAN, lenient \in BOOLEAN,
     bom \in {<<>>, <<BOM1, BOM2, BOM3>>},
     app \in {ExampleVersion - 1, ExampleVersion, ExampleVersion + 1} :
    Start(Document(ExampleLines, eol, final, bom), lenient, app)

NextExample ==
  \/ DoConstruct
  \/ \E name \in {FieldName, FieldDescription} : DoReadField(name)

SpecExample == InitExample /\ [][NextExample]_vars

(***************************************************************************)
(* Coercion of a value to a basic type                                     *)
(***************************************************************************)
\* warning(msg): the line number arguments take their defaults
warning_msg(r, kind, text) == warning(r, kind, text, 0, TRUE)

\* the position after the digits that start at position n + 1 of s
RECURSIVE count_digits(_, _)
count_digits(s, n) ==
  IF n < Len(s) /\ DigitValue(s[n + 1]) >= 0 THEN count_digits(s, n + 1) ELSE n

RECURSIVE count_spaces(_, _)
count_spaces(s, n) ==
  IF n < Len(s) /\ IsSpace(s[n + 1]) THEN count_spaces(s, n + 1) ELSE n

\* A number beyond the checker's integers is held as hi * 2^16 + lo.
Half == 65536

Big(hi, lo) == [hi |-> hi, lo |-> lo]

\* the number written by the digits s, after the number acc
RECURSIVE big_digits(_, _)
big_digits(s, acc) ==
  IF s = <<>> THEN acc
  ELSE Let(acc.lo * 10 + DigitValue(Head(s)), LAMBDA low :
       Let(Big(acc.hi * 10 + low \div Half, low % Half), LAMBDA next :
       Let(Tail(s), LAMBDA rest : big_digits(rest, next))))

\* strtol(s, &end, 10): white space, an optional sign, digits;
\* [digits, neg, mag, rest]: the count of digits, the sign, the magnitude and
\* the count of characters after the digits
number_prefix(s) ==
  Let(count_spaces(s, 0), LAMBDA ws :
  Let(IF ws < Len(s) /\ s[ws + 1] \in {"-", "+"} THEN ws + 1 ELSE ws, LAMBDA start :
  Let(count_digits(s, start), LAMBDA end :
  Let(big_digits(SubSeq(s, start + 1, end), Big(0, 0)), LAMBDA m :
    [digits |-> end - start,
     neg    |-> start > ws /\ s[start] = "-",
     mag    |-> m,
     rest   |-> Len(s) - end]))))

\* the widths of long among the builds
LongBits == {32, 64}

\* the number fits a long of bits bits.  The texts of the model have at most ten
\* digits: all their numbers fit 64 bits.
FitsLong(neg, mag, bits) ==
  \/ bits = 64
  \/ mag.hi < Half \div 2
  \/ neg /\ mag = Big(Half \div 2, 0)

\* a long: its sign and magnitude
Long(neg, mag) == [neg |-> neg /\ mag /= Big(0, 0), mag |-> mag]

\* wxString::ToLong(&l): the outcomes [ok, l] among the builds.  A text that is
\* no number leaves l alone; of a number followed by other text the library
\* either leaves l alone or stores the number; a number out of range fails.
ToLong(s, l) ==
  Let(number_prefix(s), LAMBDA p :
    IF p.digits = 0 THEN {[ok |-> FALSE, l |-> l]}
    ELSE IF p.rest > 0
      THEN {[ok |-> FALSE, l |-> l]}
           \cup {[ok |-> FALSE, l |-> Long(p.neg, p.mag)] :
                   bits \in {w \in LongBits : FitsLong(p.neg, p.mag, w)}}
      ELSE {IF FitsLong(p.neg, p.mag, bits) THEN [ok |-> TRUE, l |-> Long(p.neg, p.mag)]
                                            ELSE [ok |-> FALSE, l |-> l] : bits \in LongBits})

\* abs(l)
Abs(l) == l.mag

\* conversion of a non-negative long to unsigned int: modulo 2^32
ToUInt(mag) == Big(mag.hi % Half, mag.lo)

\* fault: a negative number is stored without a warning
handle_unsigned_quiet(r) ==
  Let(getValue(r), LAMBDA r1 :
    IF ~Ok(r1) THEN {[r |-> r1, set |-> FALSE, i |-> Big(0, 0)]}
    ELSE {[r   |-> IF ~o.ok
                     THEN warning_msg(r1, "Expected non-negative integer", r1.previous_value)
                   ELSE r1,
           set |-> TRUE,
           i   |-> ToUInt(Abs(o.l))] : o \in ToLong(r1.previous_value, Long(FALSE, Big(0, 0)))})

\* Reader::handle(unsigned int&): the outcomes [r, set, i]
handle_unsigned(r) ==
  Let(getValue(r), LAMBDA r1 :
    IF ~Ok(r1) THEN {[r |-> r1, set |-> FALSE, i |-> Big(0, 0)]}
    ELSE {[r   |-> IF ~o.ok
                     THEN warning_msg(r1, "Expected non-negative integer", r1.previous_value)
                   ELSE IF o.l.neg
                     THEN warning_msg(r1, "Expected non-negative integer (number)", <<>>)
                   ELSE r1,
           set |-> TRUE,
           i   |-> ToUInt(Abs(o.l))] : o \in ToLong(r1.previous_value, Long(FALSE, Big(0, 0)))})

TrueTokens  == {<<"t", "r", "u", "e">>, <<"1">>, <<"y", "e", "s">>}
FalseTokens == {<<"f", "a", "l", "s", "e">>, <<"0">>, <<"n", "o">>}

\* Reader::handle(bool&) on a destination that holds b: [r, b]
handle_bool(r, b) ==
  Let(getValue(r), LAMBDA r1 :
    IF ~Ok(r1) THEN [r |-> r1, b |-> b]
    ELSE IF r1.previous_value \in TrueTokens THEN [r |-> r1, b |-> TRUE]
    ELSE IF r1.previous_value \in FalseTokens THEN [r |-> r1, b |-> FALSE]
    ELSE [r |-> warning_msg(r1, "Expected boolean", r1.previous_value), b |-> b])

\* a bool widened to a tribool
Widen(b) == IF b THEN "true" ELSE "false"

\* Reader::handle(tribool&) on a destination that holds tb: the outcomes [r, tb].
\* The local 'bool b' is not initialised: it holds either value.
handle_tribool(r, tb) ==
  {Let(handle_bool(r, b), LAMBDA h :
     [r |-> h.r, tb |-> IF Ok(h.r) THEN Widen(h.b) ELSE tb]) : b \in BOOLEAN}

\* the caller's field after a coercion into it
Field(kind, before, after) == [field |-> kind, before |-> before, after |-> after]

\* what a field holds before the read
UIntDefaults == {Big(0, 0), Big(0, 7)}
TriboolValues == {"true", "false", "indeterminate"}

DoHandleUnsigned ==
  /\ phase = "open"
  /\ rd.state /= "HANDLED"
  /\ \E i0 \in UIntDefaults, h \in handle_unsigned(rd) :
       /\ rd' = h.r
       /\ Done(h.r)
       /\ obj' = Field("unsigned", i0, IF h.set THEN h.i ELSE i0)
  /\ last' = Call("handleUnsigned", <<>>, 0, FALSE, NoBlock)
  /\ carry' = NoCarry
  /\ UNCHANGED <<queue, app_version, doc, open, pc>>

DoHandleBool ==
  /\ phase = "open"
  /\ rd.state /= "HANDLED"
  /\ \E b0 \in BOOLEAN :
       LET h == handle_bool(rd, b0)
       IN /\ rd' = h.r
          /\ Done(h.r)
          /\ obj' = Field("bool", b0, h.b)
  /\ last' = Call("handleBool", <<>>, 0, FALSE, NoBlock)
  /\ carry' = NoCarry
  /\ UNCHANGED <<queue, app_version, doc, open, pc>>

DoHandleTribool ==
  /\ phase = "open"
  /\ rd.state /= "HANDLED"
  /\ \E tb0 \in TriboolValues : \E h \in handle_tribool(rd, tb0) :
       /\ rd' = h.r
       /\ Done(h.r)
       /\ obj' = Field("tribool", tb0, h.tb)
  /\ last' = Call("handleTribool", <<>>, 0, FALSE, NoBlock)
  /\ carry' = NoCarry
  /\ UNCHANGED <<queue, app_version, doc, open, pc>>

\* the values of the key "a" in the documents read into basic types
ValueTokens ==
  {<<"5">>,
   <<"-", "5">>,
   <<"0">>,
   <<"-", "0">>,
   <<"1", "2">>,
   <<"x">>,
   <<>>,
   <<"5", "x">>,
   <<"-", "5", "x">>,
   <<"-">>,
   <<"4", "2", "9", "4", "9", "6", "7", "3", "0", "1">>,
   <<"-", "4", "2", "9", "4", "9", "6", "7", "3", "0", "1">>,
   <<"t", "r", "u", "e">>,
   <<"1">>,
   <<"y", "e", "s">>,
   <<"f", "a", "l", "s", "e">>,
   <<"n", "o">>,
   <<"T", "r", "u", "e">>,
   <<"m", "a", "y", "b", "e">>}

InitCoerce ==
  \E token \in ValueTokens, rest \in {<<>>, <<LineB_x>>, <<LineTx>>},
     final \in BOOLEAN, lenient \in BOOLEAN :
    Start(Document(<<LineA \o <<SPC>> \o token>> \o rest, <<LF>>, final, <<>>), lenient, 2)

NextCoerce ==
  \/ DoConstruct
  \/ DoEnterAnyBlock
  \/ DoExitBlock
  \/ DoHandleUnsigned
  \/ DoHandleBool
  \/ DoHandleTribool

SpecCoerce == InitCoerce /\ [][NextCoerce]_vars

(***************************************************************************)
(* The line scanner on its own                                             *)
(***************************************************************************)
\* the bytes of the streams scanned, and their greatest length
ScanBytes == {BOM1, BOM2, BOM3, "x", LF, CR}
MaxBytes == 5

\* the caller's record: the stream the scanner starts on, the lines it returned
Scanned(start, lines) == [start |-> start, lines |-> lines]

InitScanner ==
  \E bytes \in UNION {[1..n -> ScanBytes] : n \in 0..MaxBytes} :
    /\ doc = Document(<<bytes>>, <<>>, FALSE, <<>>)
    /\ rd = NewReader(bytes, FALSE)
    /\ queue = <<>>
    /\ app_version = 2
    /\ phase = "new"
    /\ last = [op |-> "none", name |-> <<>>, num |-> 0, ret |-> FALSE, blk |-> NoBlock,
               pre |-> NewReader(bytes, FALSE), pre_queue |-> <<>>]
    /\ open = <<>>
    /\ carry = NoCarry
    /\ obj = Scanned(bytes, <<>>)
    /\ pc = Idle

\* eat_utf8_bom(input), at the start of the stream
DoEatBOM ==
  /\ phase = "new"
  /\ LET b == eat_utf8_bom(rd.input, rd.eof)
     IN /\ rd' = [rd EXCEPT !.input = b.input, !.eof = b.eof]
        /\ last' = Call("eatBOM", <<>>, 0, b.eaten, NoBlock)
        /\ obj' = Scanned(b.input, <<>>)
  /\ phase' = "scan"
  /\ UNCHANGED <<queue, app_version, doc, open, carry, pc>>

\* line = read_utf8_line(input), called as long as the stream is not at its end
DoNextLine ==
  /\ phase \in {"new", "scan"}
  /\ ~rd.eof
  /\ LET got == read_utf8_line(rd.input, rd.eof)
     IN /\ rd' = [rd EXCEPT !.input = got.input, !.eof = got.eof,
                            !.line = IF got.ok THEN got.line ELSE @,
                            !.error = IF got.ok THEN @ ELSE "Invalid UTF-8 sequence"]
        /\ phase' = IF got.ok THEN "scan" ELSE "failed"
        /\ obj' = IF got.ok THEN Scanned(obj.start, Append(obj.lines, got.line)) ELSE obj
        /\ last' = Call("nextLine", <<>>, 0, got.ok, NoBlock)
  /\ UNCHANGED <<queue, app_version, doc, open, carry, pc>>

NextScanner == DoEatBOM \/ DoNextLine

SpecScanner == InitScanner /\ [][NextScanner]_vars

(***************************************************************************)
(* EnumReader                                                              *)
(***************************************************************************)
\* EnumReader(read): first is a null pointer, here the empty list of names
EnumReader(read) == [read |-> read, first |-> <<>>, done |-> FALSE]

\* EnumReader::handle(name, value, enum_): [er, out]
enum_handle(er, name, value, out) ==
  LET er1 == IF er.first = <<>> THEN [er EXCEPT !.first = <<name>>] ELSE er
  IN IF ~er1.done /\ er1.read = name
       THEN [er |-> [er1 EXCEPT !.done = TRUE], out |-> value]
       ELSE [er |-> er1, out |-> out]

\* [thrown, error, text]: thrown where the code throws InternalError
notDoneErrorMessage(er) ==
  IF er.first = <<>>
    THEN [thrown |-> TRUE, error |-> "No first value in EnumReader", text |-> <<>>]
    ELSE [thrown |-> FALSE, error |-> NoError, text |-> <<er.read, er.first[1]>>]

\* fault: the warning of an unrecognized value is not recorded
warnIfNotDone_silent(er, errors_to) == errors_to

\* the reader errors_to after EnumReader::warnIfNotDone(errors_to)
warnIfNotDone(er, errors_to) ==
  IF ~er.done
    THEN Let(notDoneErrorMessage(er), LAMBDA m :
           IF m.thrown THEN [errors_to EXCEPT !.error = m.error]
           ELSE warning_msg(errors_to, "unrecognized value", m.text))
    ELSE errors_to

\* [r, message]: the reader and the message of the ParseError thrown, if any
errorIfNotDone(er, r) ==
  IF ~er.done
    THEN Let(notDoneErrorMessage(er), LAMBDA m :
           IF m.thrown THEN [r |-> [r EXCEPT !.error = m.error], message |-> <<>>]
           ELSE [r |-> [r EXCEPT !.error = "unrecognized value"], message |-> <<m.text>>])
    ELSE [r |-> r, message |-> <<>>]

\* the candidates offered and the texts read
Red == <<"r", "e", "d">>
Green == <<"g", "r", "e", "e", "n">>
Blue == <<"b", "l", "u", "e">>
Purple == <<"p", "u", "r", "p", "l", "e">>
Candidates == {Red, Green, Blue}
EnumTokens == {Red, Green, Purple}
MaxOffers == 3

\* the decoding of one value: the EnumReader, the destination, the names offered
\* so far, whether decoding has concluded, and the message of a ParseError
Decoding(er, out, offered, stage, message) ==
  [reader |-> er, out |-> out, offered |-> offered, stage |-> stage, message |-> message]

NoDecoding == Decoding(EnumReader(<<>>), "default", <<>>, "none", <<>>)

InitEnum ==
  \E token \in EnumTokens, rest \in {<<>>, <<LineB_x>>}, lenient \in BOOLEAN :
    LET d == Document(<<LineA \o <<SPC>> \o token>> \o rest, <<LF>>, TRUE, <<>>)
    IN /\ doc = d
       /\ rd = NewReader(Bytes(d), lenient)
       /\ queue = <<>>
       /\ app_version = 2
       /\ phase = "new"
       /\ last = [op |-> "none", name |-> <<>>, num |-> 0, ret |-> FALSE, blk |-> NoBlock,
                  pre |-> NewReader(Bytes(d), lenient), pre_queue |-> <<>>]
       /\ open = <<>>
       /\ carry = NoCarry
       /\ obj = NoDecoding
       /\ pc = Idle

\* EnumReader reader(getValue())
DoEnumRead ==
  /\ phase = "open"
  /\ rd.state /= "HANDLED"
  /\ obj.stage /= "reading"
  /\ rd' = getValue(rd)
  /\ Done(rd')
  /\ obj' = Decoding(EnumReader(rd'.previous_value), "default", <<>>, "reading", <<>>)
  /\ last' = Call("enumRead", <<>>, 0, FALSE, NoBlock)
  /\ carry' = NoCarry
  /\ UNCHANGED <<queue, app_version, doc, open, pc>>

\* reader.handle(name, value, enum_), the value named as its candidate
DoOffer(name) ==
  /\ phase = "open"
  /\ obj.stage = "reading"
  /\ Len(obj.offered) < MaxOffers
  /\ LET h == enum_handle(obj.reader, name, name, obj.out)
     IN obj' = Decoding(h.er, h.out, Append(obj.offered, name), "reading", <<>>)
  /\ last' = Call("offer", name, 0, FALSE, NoBlock)
  /\ UNCHANGED <<rd, queue, app_version, phase, doc, open, carry, pc>>

DoWarnIfNotDone ==
  /\ phase = "open"
  /\ obj.stage = "reading"
  /\ rd' = warnIfNotDone(obj.reader, rd)
  /\ Done(rd')
  /\ obj' = [obj EXCEPT !.stage = "concluded"]
  /\ last' = Call("warnIfNotDone", <<>>, 0, FALSE, NoBlock)
  /\ UNCHANGED <<queue, app_version, doc, open, carry, pc>>

DoErrorIfNotDone ==
  /\ phase = "open"
  /\ obj.stage = "reading"
  /\ LET e == errorIfNotDone(obj.reader, rd)
     IN /\ rd' = e.r
        /\ Done(e.r)
        /\ obj' = [obj EXCEPT !.stage = "concluded", !.message = e.message]
  /\ last' = Call("errorIfNotDone", <<>>, 0, FALSE, NoBlock)
  /\ UNCHANGED <<queue, app_version, doc, open, carry, pc>>

NextEnum ==
  \/ DoConstruct
  \/ DoEnterAnyBlock
  \/ DoExitBlock
  \/ DoEnumRead
  \/ \E name \in Candidates : DoOffer(name)
  \/ DoWarnIfNotDone
  \/ DoErrorIfNotDone

SpecEnum == InitEnum /\ [][NextEnum]_vars

(***************************************************************************)
(* Text blocks with blank lines                                            *)
(***************************************************************************)
LineSpaces == <<SPC, SPC>>
LineTab == <<TAB>>
LineTTab == <<TAB, TAB>>

\* the lines after the key "a:": text, blank lines of every sort, a next key
TextLineSet == {LineTx, LineBlank, LineSpaces, LineTab, LineTTab, LineB_x}
MaxTextLines == 4

InitText ==
  \E body \in UNION {[1..n -> TextLineSet] : n \in 1..MaxTextLines},
     final \in BOOLEAN, lenient \in BOOLEAN :
    Start(Document(<<LineA>> \o body, <<LF>>, final, <<>>), lenient, 2)

NextText ==
  \/ DoConstruct
  \/ DoEnterAnyBlock
  \/ DoGetValue
  \/ DoExitBlock

SpecText == InitText /\ [][NextText]_vars

(***************************************************************************)
(* Key lines with spaces or without a colon, after keys and after text     *)
(***************************************************************************)
LineB == <<"b">>
LineSB_x == <<SPC>> \o LineB_x

\* the lines after the key "a:": a line of text, keys with and without faults
KeyLineSet == {LineTx, LineB, LineSB_x, LineB_x}
MaxKeyLines == 3

InitKeys ==
  \E body \in UNION {[1..n -> KeyLineSet] : n \in 0..MaxKeyLines},
     final \in BOOLEAN, lenient \in BOOLEAN :
    Start(Document(<<LineA>> \o body, <<LF>>, final, <<>>), lenient, 2)

SpecKeys == InitKeys /\ [][Next]_vars

(***************************************************************************)
(* The operations step by step: every loop iteration and every call is a   *)
(* step of its own, the calls in progress are the frames of pc.stack       *)
(***************************************************************************)
Frame(at, name) == [at |-> at, name |-> name, pending |-> 0]

Top(st) == st[Len(st)]

Pop(st) == SubSeq(st, 1, Len(st) - 1)

\* continue the function on top at another place
GoTo(st, at) == [st EXCEPT ![Len(st)].at = at]

\* call a function of the reader and continue at `back` when it returns
CallFrom(st, back, callee, name) == Append(GoTo(st, back), Frame(callee, name))

\* the outcome of a step: the reader, the frames, the value returned, the queue
Res(r, st, ret, q) == [r |-> r, stack |-> st, ret |-> ret, queue |-> q]

\* Reader::moveNext
step_moveNext(r, st, ret, q) ==
  IF Top(st).at = "moveNext"
    THEN Res([r EXCEPT !.previous_line_number = r.line_number,
                       !.state = "HANDLED",
                       !.key = <<>>,
                       !.indent = -1], GoTo(st, "moveNext_loop"), ret, q)
  ELSE IF r.key = <<>> /\ ~r.eof
    THEN Res(readLine(r, FALSE), st, ret, q)
    ELSE Res(at_end_of_file(r), Pop(st), ret, q)

\* Reader::enterAnyBlock and Reader::enterBlock
step_enter(r, st, ret, q) ==
  LET f == Top(st)
  IN IF f.at = "enterAnyBlock"
       THEN IF r.state = "ENTERED"
              THEN Res(r, CallFrom(st, "enterAnyBlock_check", "moveNext", <<>>), ret, q)
              ELSE Res(r, GoTo(st, "enterAnyBlock_check"), ret, q)
     ELSE IF f.at = "enterBlock"
       THEN IF r.state = "ENTERED"
              THEN Res(r, CallFrom(st, "enterBlock_check", "moveNext", <<>>), ret, q)
              ELSE Res(r, GoTo(st, "enterBlock_check"), ret, q)
     ELSE IF r.indent /= r.expected_indent THEN Res(r, Pop(st), FALSE, q)
     ELSE IF f.at = "enterAnyBlock_check" \/ r.key = f.name
       THEN Res([r EXCEPT !.state = "ENTERED", !.expected_indent = @ + 1], Pop(st), TRUE, q)
       ELSE Res(r, Pop(st), FALSE, q)

\* fault: the loop goes on until a line at the expected level is found
more_to_dump_unless_level(r) == r.indent /= r.expected_indent

\* the test of the loop that dumps the remainder of a block
more_to_dump(r) == r.indent > r.expected_indent

\* Reader::exitBlock
step_exitBlock(r, st, ret, q) ==
  IF Top(st).at = "exitBlock"
    THEN Let([r EXCEPT !.expected_indent = @ - 1, !.previous_value = <<>>], LAMBDA r1 :
           IF r.state = "ENTERED"
             THEN Res(r1, CallFrom(st, "exitBlock_dump", "moveNext", <<>>), ret, q)
             ELSE Res(r1, GoTo(st, "exitBlock_dump"), ret, q))
  ELSE IF more_to_dump(r)
    THEN Res(r, CallFrom(st, "exitBlock_dump", "moveNext", <<>>), ret, q)
    ELSE Res([r EXCEPT !.state = "HANDLED"], Pop(st), ret, q)

\* Reader::unknownKey
step_unknownKey(r, st, ret, q) ==
  IF Top(st).at = "unknownKey"
    THEN IF r.ignore_invalid
           THEN Res(r, CallFrom(st, "unknownKey_while", "moveNext", <<>>), ret, q)
         ELSE IF r.indent >= r.expected_indent
           THEN Res(warning(r, "Unexpected key", r.key, 0, FALSE),
                    CallFrom(st, "unknownKey_while", "moveNext", <<>>), ret, q)
           ELSE Res(r, Pop(st), ret, q)
  ELSE IF r.indent > r.expected_indent
    THEN Res(r, CallFrom(st, "unknownKey_while", "moveNext", <<>>), ret, q)
    ELSE Res(r, Pop(st), ret, q)

\* Reader::getValue
step_getValue(r, st, ret, q) ==
  LET f == Top(st)
  IN IF f.at = "getValue"
       THEN IF r.state = "UNHANDLED" THEN Res([r EXCEPT !.state = "HANDLED"], Pop(st), ret, q)
            ELSE IF r.value = <<>>
              THEN Let(readLine([r EXCEPT !.previous_value = <<>>], TRUE), LAMBDA r1 :
                     Res([r1 EXCEPT !.previous_line_number = r1.line_number],
                         GoTo(st, "getValue_while"), ret, q))
              ELSE Res([r EXCEPT !.previous_value = r.value],
                       CallFrom(st, "getValue_return", "moveNext", <<>>), ret, q)
     ELSE IF f.at = "getValue_while"
       THEN IF r.indent >= r.expected_indent /\ ~r.eof
              THEN Res([r EXCEPT !.previous_value =
                          @ \o [i \in 1..f.pending |-> LF]
                            \o substr_from(r.line, r.expected_indent)],
                       [st EXCEPT ![Len(st)].at = "getValue_do", ![Len(st)].pending = 0],
                       ret, q)
              ELSE Res([r EXCEPT !.state = "HANDLED"], GoTo(st, "getValue_skip"), ret, q)
     ELSE IF f.at = "getValue_do"
       THEN Let(readLine(r, TRUE), LAMBDA r1 :
              Res(r1,
                  [st EXCEPT ![Len(st)].pending = @ + 1,
                             ![Len(st)].at =
                                IF trim(r1.line) = <<>> /\ r1.indent < r1.expected_indent
                                     /\ ~r1.eof
                                  THEN "getValue_do" ELSE "getValue_while"],
                  ret, q))
     ELSE IF f.at = "getValue_skip"
       THEN IF r.key = <<>> /\ ~r.eof
              THEN Res(readLine(r, FALSE), st, ret, q)
              ELSE Let(at_end_of_file(r), LAMBDA r1 :
                     Res(IF r1.indent >= r1.expected_indent
                           THEN warning(r1, BlankLineWarning, <<>>, -1, FALSE)
                           ELSE r1,
                         Pop(st), ret, q))
     ELSE Res(r, Pop(st), ret, q)

\* Reader::Reader and Reader::handleAppVersion
step_construct(r, st, ret, q, app) ==
  LET f == Top(st)
  IN IF f.at = "construct"
       THEN Let(eat_utf8_bom(r.input, r.eof), LAMBDA b :
              Res([r EXCEPT !.input = b.input, !.eof = b.eof],
                  CallFrom(st, "handleAppVersion", "moveNext", <<>>), ret, q))
     ELSE IF f.at = "handleAppVersion"
       THEN Res(r, CallFrom(st, "handleAppVersion_entered", "enterBlock", MseVersion), ret, q)
     ELSE IF f.at = "handleAppVersion_entered"
       THEN IF ret
              THEN Res(r, CallFrom(st, "handleAppVersion_value", "getValue", <<>>), ret, q)
              ELSE Res(r, Pop(st), ret, q)
     ELSE IF f.at = "handleAppVersion_value"
       THEN Let(version_from_string(r.previous_value), LAMBDA v :
              Res([r EXCEPT !.file_app_version = v],
                  CallFrom(st, "handleAppVersion_exit", "exitBlock", <<>>), ret,
                  IF app < v THEN Append(q, [type |-> "newer version", text |-> <<v>>])
                             ELSE q))
     ELSE Res(r, Pop(st), ret, q)

\* an operation that has not returned after this many steps is stopped
MaxSteps == 40

Running == phase = "running"

\* the public call op(name) begins at the place `at`
Begin(op, name, at) ==
  /\ pc' = [stack |-> <<Frame(at, name)>>, steps |-> 0, ret |-> FALSE]
  /\ phase' = "running"
  /\ last' = Call(op, name, 0, FALSE, NoBlock)
  /\ UNCHANGED <<rd, queue, app_version, doc, open, carry, obj>>

\* one step of the operation in progress; a ParseError unwinds every frame
Resume(res) ==
  /\ pc.steps < MaxSteps
  /\ rd' = res.r
  /\ queue' = res.queue
  /\ pc' = [stack |-> IF Ok(res.r) THEN res.stack ELSE <<>>,
            steps |-> pc.steps + 1,
            ret   |-> res.ret]
  /\ phase' = IF ~Ok(res.r) THEN "failed"
              ELSE IF res.stack = <<>> THEN "open" ELSE "running"
  /\ UNCHANGED <<app_version, doc, last, open, carry, obj>>

At(places) == Running /\ Top(pc.stack).at \in places

BeginConstruct == phase = "new" /\ Begin("construct", <<>>, "construct")

BeginEnterAnyBlock == phase = "open" /\ Begin("enterAnyBlock", <<>>, "enterAnyBlock")

BeginEnterBlock(name) == phase = "open" /\ Begin("enterBlock", name, "enterBlock")

BeginExitBlock ==
  /\ phase = "open"
  /\ rd.expected_indent > 0
  /\ rd.state /= "UNHANDLED"
  /\ Begin("exitBlock", <<>>, "exitBlock")

BeginUnknownKey ==
  /\ phase = "open"
  /\ rd.line_number <= Len(doc.lines) + MaxPastEnd
  /\ Begin("unknownKey", <<>>, "unknownKey")

BeginGetValue ==
  /\ phase = "open"
  /\ rd.state /= "HANDLED"
  /\ Begin("getValue", <<>>, "getValue")

StepMoveNext ==
  /\ At({"moveNext", "moveNext_loop"})
  /\ Resume(step_moveNext(rd, pc.stack, pc.ret, queue))

StepEnter ==
  /\ At({"enterAnyBlock", "enterAnyBlock_check", "enterBlock", "enterBlock_check"})
  /\ Resume(step_enter(rd, pc.stack, pc.ret, queue))

StepExitBlock ==
  /\ At({"exitBlock", "exitBlock_dump"})
  /\ Resume(step_exitBlock(rd, pc.stack, pc.ret, queue))

StepUnknownKey ==
  /\ At({"unknownKey", "unknownKey_while"})
  /\ Resume(step_unknownKey(rd, pc.stack, pc.ret, queue))

StepGetValue ==
  /\ At({"getValue", "getValue_while", "getValue_do", "getValue_skip", "getValue_return"})
  /\ Resume(step_getValue(rd, pc.stack, pc.ret, queue))

StepConstruct ==
  /\ At({"construct", "handleAppVersion", "handleAppVersion_entered",
         "handleAppVersion_value", "handleAppVersion_exit"})
  /\ Resume(step_construct(rd, pc.stack, pc.ret, queue, app_version))

\* a step of the operation in progress
Step ==
  \/ StepMoveNext
  \/ StepEnter
  \/ StepExitBlock
  \/ StepUnknownKey
  \/ StepGetValue
  \/ StepConstruct

NextSteps ==
  \/ BeginConstruct
  \/ BeginEnterAnyBlock
  \/ \E name \in Names : BeginEnterBlock(name)
  \/ BeginExitBlock
  \/ BeginUnknownKey
  \/ BeginGetValue
  \/ DoUnhandle
  \/ StepMoveNext
  \/ StepEnter
  \/ StepExitBlock
  \/ StepUnknownKey
  \/ StepGetValue
  \/ StepConstruct

\* documents with and without a version block
StepLineSet == {LineA, LineB_x, LineTB, LineTx, LineBlank}
MaxStepLines == 2

InitSteps ==
  \E body \in UNION {[1..n -> StepLineSet] : n \in 0..MaxStepLines},
     header \in {<<>>, <<LineVersion2>>}, final \in BOOLEAN, lenient \in BOOLEAN :
    Start(Document(header \o body, <<LF>>, final, <<>>), lenient, 1)

\* an operation runs without suspension: its next step is always taken
SpecSteps == InitSteps /\ [][NextSteps]_vars /\ WF_vars(Step)

(***************************************************************************)
(* What the document says, read off its lines (not through the reader)     *)
(***************************************************************************)
Lenient == last.pre.ignore_invalid

\* the number of leading characters c of text from position from + 1 on
LeadingRun(text, from, c) ==
  CHOOSE n \in 0..(Len(text) - from) :
    /\ \A i \in 1..n : text[from + i] = c
    /\ n < Len(text) - from => text[from + n + 1] /= c

LeadingTabs(text) == LeadingRun(text, 0, TAB)

\* a line the cursor skips: empty, only tabs and spaces, or a comment
BlankOrComment(text) ==
  \/ \A i \in 1..Len(text) : text[i] \in {TAB, SPC}
  \/ text[LeadingTabs(text) + 1] = HASH

\* the indentation the line parser gives a key line: its tabs, and outside
\* leniency mode one level for every 8 spaces that follow them
KeyIndent(text, lenient) ==
  LeadingTabs(text)
    + (IF lenient THEN 0 ELSE LeadingRun(text, LeadingTabs(text), SPC) \div 8)

\* the first key line after line `after` indented at most `level`; 0 when there is none
NextKeyLine(after, level, lenient) ==
  LET hits == {j \in (after + 1)..Len(doc.lines) :
                 /\ ~BlankOrComment(doc.lines[j])
                 /\ KeyIndent(doc.lines[j], lenient) <= level}
  IN IF hits = {} THEN 0 ELSE CHOOSE j \in hits : \A k \in hits : j <= k

\* the cursor is on line j of the document, or for j = 0 on the end-of-stream sentinel
CursorAt(r, j) ==
  IF j = 0 THEN r.indent = -1 /\ r.key = <<>>
           ELSE r.line_number = j /\ r.key /= <<>> /\ r.indent >= 0

CountKind(w, kind) == Cardinality({i \in 1..Len(w) : w[i].kind = kind})

Returned == phase = "open"

(***************************************************************************)
(* C1: expected_indent is the number of successful enters minus the number *)
(* of exits: never negative, unchanged by a failed enter, one more after a *)
(* successful one, and after exitBlock back at the value it had before the *)
(* matching enter.                                                         *)
(***************************************************************************)
C1_IndentBalanced ==
  Returned =>
    /\ rd.expected_indent = Len(open)
    /\ rd.expected_indent >= 0
    /\ last.op \in {"enterBlock", "enterAnyBlock"} =>
         rd.expected_indent = last.pre.expected_indent + (IF last.ret THEN 1 ELSE 0)
    /\ last.op = "exitBlock" => rd.expected_indent = last.blk.exp
    /\ last.op \in {"getValue", "unhandle", "unknownKey"} =>
         rd.expected_indent = last.pre.expected_indent

C1_Witness ==
  /\ Returned
  /\ last.op = "exitBlock"
  /\ Len(open) = 1
  /\ rd.expected_indent = 1
  /\ rd.indent = 1

(***************************************************************************)
(* C2: after exitBlock closes a block of which the caller read any number  *)
(* of child lines, the cursor is on the first key line after the block's   *)
(* key that is indented at most the restored level (or on the sentinel),   *)
(* the state is HANDLED and no warning was recorded for the lines dropped. *)
(***************************************************************************)
\* the line exitBlock has to stop on
C2_Target == NextKeyLine(last.blk.line, last.blk.exp, Lenient)

\* before the exit the caller had read child lines of the block only
C2_InsideBlock ==
  \/ C2_Target = 0
  \/ last.pre.indent >= 0 /\ last.pre.line_number <= C2_Target

C2_Position ==
  (Returned /\ last.op = "exitBlock" /\ C2_InsideBlock) =>
    /\ CursorAt(rd, C2_Target)
    /\ rd.state = "HANDLED"

C2_ExitSkipsBlock ==
  (Returned /\ last.op = "exitBlock" /\ C2_InsideBlock) =>
    /\ CursorAt(rd, C2_Target)
    /\ rd.state = "HANDLED"
    /\ rd.warnings = last.pre.warnings

\* exitBlock stopped on the right line and recorded a warning on its way
C2_DiscardWarned ==
  /\ Returned
  /\ last.op = "exitBlock"
  /\ C2_InsideBlock
  /\ CursorAt(rd, C2_Target)
  /\ Len(rd.warnings) > Len(last.pre.warnings)

(***************************************************************************)
(* C3: for a key with an empty value followed by N >= 1 non-blank lines of *)
(* one indentation, at least the expected level, getValue() returns those  *)
(* N lines without their first expected_indent tabs, joined by single      *)
(* newlines, and records no warning, whether a less indented key line      *)
(* follows or the stream ends there, with or without a final terminator.   *)
(***************************************************************************)
\* lines k+1 .. k+n are the continuation lines of the key on line k at level e
C3_TextBlock(k, n, e) ==
  /\ n >= 1
  /\ k + n <= Len(doc.lines)
  /\ \A i \in (k + 1)..(k + n) :
       /\ ~BlankOrComment(doc.lines[i])
       /\ LeadingTabs(doc.lines[i]) >= e
       /\ LeadingTabs(doc.lines[i]) = LeadingTabs(doc.lines[k + 1])
  /\ \/ k + n = Len(doc.lines)
     \/ /\ ~BlankOrComment(doc.lines[k + n + 1])
        /\ LeadingTabs(doc.lines[k + n + 1]) < e

RECURSIVE C3_Joined(_, _, _)
C3_Joined(from, to, e) ==
  IF from > to THEN <<>>
  ELSE SubSeq(doc.lines[from], e + 1, Len(doc.lines[from]))
         \o (IF from < to THEN <<LF>> ELSE <<>>)
         \o C3_Joined(from + 1, to, e)

\* getValue() was called on the key just entered, whose value is empty
C3_Collected ==
  /\ Returned
  /\ last.op = "getValue"
  /\ last.pre.state = "ENTERED"
  /\ last.pre.value = <<>>

C3_TextRoundTrip ==
  C3_Collected =>
    \A n \in 1..Len(doc.lines) :
      C3_TextBlock(last.pre.line_number, n, last.pre.expected_indent) =>
        /\ rd.previous_value =
             C3_Joined(last.pre.line_number + 1, last.pre.line_number + n,
                       last.pre.expected_indent)
        /\ rd.warnings = last.pre.warnings

\* a one-line block that ends the stream without a terminator comes back empty
C3_LastLineLost ==
  /\ C3_Collected
  /\ C3_TextBlock(last.pre.line_number, 1, last.pre.expected_indent)
  /\ ~doc.final
  /\ rd.previous_value = <<>>
  /\ Len(rd.warnings) = Len(last.pre.warnings) + 1

\* the same, leaving out the block that ends the stream without a terminator
C3_TextRoundTripTerminated ==
  C3_Collected =>
    \A n \in 1..Len(doc.lines) :
      (/\ C3_TextBlock(last.pre.line_number, n, last.pre.expected_indent)
       /\ (last.pre.line_number + n = Len(doc.lines) => doc.final)) =>
        /\ rd.previous_value =
             C3_Joined(last.pre.line_number + 1, last.pre.line_number + n,
                       last.pre.expected_indent)
        /\ rd.warnings = last.pre.warnings

(***************************************************************************)
(* C4: a failed enterBlock(name) leaves the reader as it was.              *)
(***************************************************************************)
\* the fields the claim names
SameCursor(r, q) ==
  /\ r.state = q.state
  /\ r.expected_indent = q.expected_indent
  /\ r.key = q.key
  /\ r.value = q.value
  /\ r.indent = q.indent
  /\ r.line_number = q.line_number

C4_Failed == Returned /\ last.op = "enterBlock" /\ ~last.ret

\* C4 as stated: from any cursor state, ENTERED included, nothing changes
C4_FailedEnterNoChange == C4_Failed => SameCursor(rd, last.pre)

\* a level no line of the document is indented beyond
DeepestLevel ==
  IF doc.lines = <<>> THEN 0
  ELSE CHOOSE m \in {Len(doc.lines[j]) : j \in 1..Len(doc.lines)} :
         \A j \in 1..Len(doc.lines) : Len(doc.lines[j]) <= m

\* C4 as amended: from a state other than ENTERED a failed enterBlock(name)
\* changes nothing; from ENTERED it has first advanced the cursor to the next
\* key line (state HANDLED), and expected_indent is unchanged
C4_FailedEnterAmended ==
  C4_Failed =>
    /\ last.pre.state /= "ENTERED" => SameCursor(rd, last.pre)
    /\ last.pre.state = "ENTERED" =>
         /\ rd.expected_indent = last.pre.expected_indent
         /\ rd.state = "HANDLED"
         /\ CursorAt(rd, NextKeyLine(last.pre.line_number, DeepestLevel, Lenient))

\* the key is at the expected level and differs from the name asked for
C4_Witness ==
  /\ C4_Failed
  /\ last.pre.state = "UNHANDLED"
  /\ last.pre.indent = last.pre.expected_indent
  /\ last.pre.key /= last.name
  /\ rd.expected_indent = 1

(***************************************************************************)
(* C6: unknownKey().  Outside leniency mode: with the key indented at or   *)
(* above expected_indent, exactly one 'Unexpected key' warning and the     *)
(* cursor moves past the key and every following line indented beyond      *)
(* expected_indent; with the key below expected_indent (the sentinel       *)
(* included), no warning and nothing consumed.  In leniency mode: no       *)
(* warning, and the key and what is nested under it are skipped.           *)
(***************************************************************************)
\* the line of the cursor before the call; the sentinel lies after every line
C6_From ==
  IF last.pre.indent = -1 /\ last.pre.key = <<>> THEN Len(doc.lines)
                                                 ELSE last.pre.line_number

C6_Skipped ==
  CursorAt(rd, NextKeyLine(C6_From, last.pre.expected_indent, Lenient))

C6_UnknownKey ==
  (Returned /\ last.op = "unknownKey") =>
    /\ (~Lenient /\ last.pre.indent >= last.pre.expected_indent) =>
         /\ CountKind(rd.warnings, "Unexpected key")
              = CountKind(last.pre.warnings, "Unexpected key") + 1
         /\ C6_Skipped
    /\ (~Lenient /\ last.pre.indent < last.pre.expected_indent) =>
         /\ rd.warnings = last.pre.warnings
         /\ SameCursor(rd, last.pre)
    /\ Lenient =>
         /\ rd.warnings = last.pre.warnings
         /\ C6_Skipped

\* a key with lines nested under it was skipped with a warning
C6_Witness ==
  /\ Returned
  /\ last.op = "unknownKey"
  /\ ~Lenient
  /\ last.pre.indent >= last.pre.expected_indent
  /\ rd.line_number > last.pre.line_number + 1

(***************************************************************************)
(* C7: after getValue() returned t and unhandle() was called, the next     *)
(* getValue() returns t again without advancing (key, indent and line      *)
(* number unchanged); every getValue() ends in state HANDLED.              *)
(***************************************************************************)
C7_UnhandleRefetch ==
  /\ (Returned /\ last.op = "getValue") => rd.state = "HANDLED"
  /\ (Returned /\ carry.n = 3) =>
       /\ rd.previous_value = carry.text
       /\ rd.key = last.pre.key
       /\ rd.indent = last.pre.indent
       /\ rd.line_number = last.pre.line_number
       /\ rd.input = last.pre.input

\* a non-empty text was fetched a second time
C7_Witness ==
  /\ Returned
  /\ carry.n = 3
  /\ carry.text /= <<>>
  /\ rd.key /= <<>>

(***************************************************************************)
(* C9: when the stream ends right after a key line with an empty value,    *)
(* entering the key and calling getValue() returns the empty text, raises  *)
(* no error, records no warning and leaves the cursor on the sentinel      *)
(* (indent -1) in state HANDLED.                                           *)
(***************************************************************************)
\* getValue() was called on the entered key of the document's last line
C9_Case ==
  /\ phase /= "new"
  /\ last.op = "getValue"
  /\ last.pre.state = "ENTERED"
  /\ last.pre.value = <<>>
  /\ last.pre.line_number = Len(doc.lines)

C9_EmptyAtEnd ==
  C9_Case =>
    /\ phase = "open"
    /\ rd.previous_value = <<>>
    /\ rd.warnings = last.pre.warnings
    /\ rd.indent = -1
    /\ rd.key = <<>>
    /\ rd.state = "HANDLED"

\* the key was nested, and the stream ended without a line terminator
C9_Witness ==
  /\ C9_Case
  /\ last.pre.expected_indent = 2
  /\ ~doc.final

(***************************************************************************)
(* C5: handleIgnore(N, name) on a key equal to name at the expected level  *)
(* skips the block (enter, then exit, the cursor on the next sibling) or   *)
(* leaves the reader alone, depending on the document's version and N.     *)
(***************************************************************************)
C5_Case ==
  /\ Returned
  /\ last.op = "handleIgnore"
  /\ last.pre.key = last.name
  /\ last.pre.indent = last.pre.expected_indent

C5_Skipped ==
  /\ CursorAt(rd, NextKeyLine(last.pre.line_number, last.pre.expected_indent, Lenient))
  /\ rd.state = "HANDLED"
  /\ rd.expected_indent = last.pre.expected_indent

\* C5 as stated: the block is skipped if and only if the version is at or after N
C5_IgnoreFromVersion ==
  C5_Case =>
    /\ last.pre.file_app_version >= last.num => C5_Skipped
    /\ last.pre.file_app_version < last.num => SameCursor(rd, last.pre)

\* C5 as amended: the block is skipped if and only if the version is before N
C5_IgnoreBeforeVersion ==
  C5_Case =>
    /\ last.pre.file_app_version < last.num => C5_Skipped
    /\ last.pre.file_app_version >= last.num => SameCursor(rd, last.pre)

\* a block of a version 2 document, with a line nested under it, skipped for N = 3
C5_Witness ==
  /\ C5_Case
  /\ last.pre.file_app_version = 2
  /\ last.num = 3
  /\ rd.line_number > last.pre.line_number + 1

(***************************************************************************)
(* C8: the example document (version block, name, a two-line description), *)
(* read field by field by an application at or after its version, gives    *)
(* version 2000000, name "Example", description "Line one\nLine two", no   *)
(* warning, no queued message and expected_indent 0.                       *)
(***************************************************************************)
\* both fields were read, by an application that is not older than the document
C8_Read ==
  /\ Returned
  /\ app_version >= ExampleVersion
  /\ DOMAIN obj = {FieldName, FieldDescription}

C8_Result ==
  /\ rd.file_app_version = ExampleVersion
  /\ obj[FieldName] = <<"E", "x", "a", "m", "p", "l", "e">>
  /\ obj[FieldDescription] =
       <<"L", "i", "n", "e", SPC, "o", "n", "e">>
       \o <<LF>> \o <<"L", "i", "n", "e", SPC, "t", "w", "o">>
  /\ rd.warnings = <<>>
  /\ queue = <<>>
  /\ rd.expected_indent = 0

\* C8 for the document in each encoding of its lines the format allows
C8_Example == C8_Read => C8_Result

\* the last line of the description ends the stream and is lost
C8_LastLineLost ==
  /\ C8_Read
  /\ ~doc.final
  /\ doc.eol = <<LF>>
  /\ obj[FieldDescription] = <<"L", "i", "n", "e", SPC, "o", "n", "e">>
  /\ Len(rd.warnings) = 1

\* the result is the stated one when every line ends in LF or CR LF
C8_ExampleLineFeeds ==
  (C8_Read /\ doc.final /\ doc.eol /= <<CR>>) => C8_Result

(***************************************************************************)
(* C10: outside leniency mode a key line read by the cursor whose key part *)
(* begins with 8k to 8k+7 spaces gets k levels on top of its tabs (8       *)
(* spaces one level, 1 to 7 none), and one 'only use TABs' warning when it *)
(* begins with a space at all.                                             *)
(***************************************************************************)
\* the cursor is on a key line that readLine parsed as a key line
C10_Case ==
  /\ Returned
  /\ ~rd.ignore_invalid
  /\ rd.key /= <<>>
  /\ ~rd.in_string

C10_Spaces == LeadingRun(rd.line, LeadingTabs(rd.line), SPC)

C10_TabWarnings ==
  Cardinality({i \in 1..Len(rd.warnings) :
                 /\ rd.warnings[i].kind = "only use TABs"
                 /\ rd.warnings[i].line = rd.line_number})

C10_EightSpaces ==
  C10_Case =>
    /\ rd.indent = LeadingTabs(rd.line) + C10_Spaces \div 8
    /\ C10_TabWarnings = IF C10_Spaces >= 1 THEN 1 ELSE 0

\* one tab and sixteen spaces: three levels
C10_Witness ==
  /\ C10_Case
  /\ LeadingTabs(rd.line) = 1
  /\ C10_Spaces = 16
  /\ rd.indent = 3

(***************************************************************************)
(* C11: coercion to an unsigned integer gives n and one warning for a      *)
(* negative literal -n, the number itself and no warning for a             *)
(* non-negative literal, 0 and one warning for any other text; there is no *)
(* fatal error and the cursor moves as for getValue().                     *)
(***************************************************************************)
IsDigits(t) == t /= <<>> /\ \A i \in 1..Len(t) : DigitValue(t[i]) >= 0

\* the text is digits, or "-" and digits
IsLiteral(t) == IsDigits(t) \/ (Len(t) >= 2 /\ t[1] = "-" /\ IsDigits(Tail(t)))

\* the number a literal writes, without its sign
Magnitude(t) == big_digits(IF t[1] = "-" THEN Tail(t) ELSE t, Big(0, 0))

IsNegative(t) == IsLiteral(t) /\ t[1] = "-" /\ Magnitude(t) /= Big(0, 0)

\* the digits a text begins with, after an optional "-"
LeadingNumber(t) ==
  LET from == IF t /= <<>> /\ t[1] = "-" THEN 1 ELSE 0
  IN SubSeq(t, from + 1, count_digits(t, from))

\* what getValue() does from the state the coercion was called in
C11_Fetched == getValue(last.pre)

C11_Text == C11_Fetched.previous_value

C11_Case == phase /= "new" /\ last.op = "handleUnsigned"

\* no fatal error; the reader is as after getValue(), but for added more warnings
C11_Continues(added) ==
  /\ phase = "open"
  /\ [rd EXCEPT !.warnings = C11_Fetched.warnings] = C11_Fetched
  /\ Len(rd.warnings) = Len(C11_Fetched.warnings) + added
  /\ SubSeq(rd.warnings, 1, Len(C11_Fetched.warnings)) = C11_Fetched.warnings

\* C11 as stated
C11_UnsignedAnyNumber ==
  C11_Case =>
    IF IsNegative(C11_Text)
      THEN obj.after = Magnitude(C11_Text) /\ C11_Continues(1)
    ELSE IF IsLiteral(C11_Text)
      THEN obj.after = Magnitude(C11_Text) /\ C11_Continues(0)
    ELSE obj.after = Big(0, 0) /\ C11_Continues(1)

\* the number fits a long of 32 bits
C11_Small(mag) == mag.hi < Half \div 2

\* C11 as amended: for literals that fit a long of 32 bits as stated; a text
\* that begins with no number gives 0 and one warning; a number followed by
\* other text gives one warning and 0 or that number; a literal beyond 32
\* bits gives 0 with one warning or the number modulo 2^32
C11_Unsigned ==
  C11_Case =>
    IF IsLiteral(C11_Text) /\ C11_Small(Magnitude(C11_Text))
      THEN /\ obj.after = Magnitude(C11_Text)
           /\ C11_Continues(IF IsNegative(C11_Text) THEN 1 ELSE 0)
    ELSE IF IsLiteral(C11_Text)
      THEN \/ obj.after = Big(0, 0) /\ C11_Continues(1)
           \/ /\ obj.after = Big(Magnitude(C11_Text).hi % Half, Magnitude(C11_Text).lo)
              /\ C11_Continues(IF IsNegative(C11_Text) THEN 1 ELSE 0)
    ELSE IF LeadingNumber(C11_Text) = <<>>
      THEN obj.after = Big(0, 0) /\ C11_Continues(1)
    ELSE /\ obj.after \in {Big(0, 0), big_digits(LeadingNumber(C11_Text), Big(0, 0))}
         /\ C11_Continues(1)

\* "-5" was read into an unsigned field that held 7
C11_Witness ==
  /\ C11_Case
  /\ C11_Text = <<"-", "5">>
  /\ obj.before = Big(0, 7)
  /\ obj.after = Big(0, 5)
  /\ C11_Continues(1)

(***************************************************************************)
(* C12: boolean coercion sets the destination to true exactly for 'true',  *)
(* '1', 'yes' and to false exactly for 'false', '0', 'no', without a       *)
(* warning; for any other token it records one warning and leaves the      *)
(* destination as it was before the call.                                  *)
(***************************************************************************)
C12_Fetched == getValue(last.pre)

C12_Text == C12_Fetched.previous_value

C12_Warnings == Len(rd.warnings) - Len(C12_Fetched.warnings)

C12_True  == C12_Text \in {<<"t", "r", "u", "e">>, <<"1">>, <<"y", "e", "s">>}
C12_False == C12_Text \in {<<"f", "a", "l", "s", "e">>, <<"0">>, <<"n", "o">>}

\* the destination after the call: yes for true, no for false, else as before
C12_Outcome(yes, no) ==
  /\ phase = "open"
  /\ IF C12_True THEN obj.after = yes /\ C12_Warnings = 0
     ELSE IF C12_False THEN obj.after = no /\ C12_Warnings = 0
     ELSE obj.after = obj.before /\ C12_Warnings = 1

\* C12 for a bool and for a tribool destination
C12_Boolean ==
  /\ (phase /= "new" /\ last.op = "handleBool") => C12_Outcome(TRUE, FALSE)
  /\ (phase /= "new" /\ last.op = "handleTribool") => C12_Outcome("true", "false")

\* C12 for a bool destination
C12_BoolOnly ==
  (phase /= "new" /\ last.op = "handleBool") => C12_Outcome(TRUE, FALSE)

\* a tribool that was indeterminate is true after 'maybe' was read into it
C12_TriboolOverwritten ==
  /\ phase = "open"
  /\ last.op = "handleTribool"
  /\ C12_Text = <<"m", "a", "y", "b", "e">>
  /\ obj.before = "indeterminate"
  /\ obj.after = "true"
  /\ C12_Warnings = 1

(***************************************************************************)
(* C13: eat_utf8_bom consumes the three bytes EF BB BF of a stream that    *)
(* begins with them; of any other stream, also one that begins with EF or  *)
(* EF BB only or is shorter than three bytes, it pushes back every byte it *)
(* read: the bytes the scanner gets next are the original stream           *)
(***************************************************************************)
C13_Stream == Bytes(doc)

C13_HasBOM ==
  Len(C13_Stream) >= 3 /\ SubSeq(C13_Stream, 1, 3) = <<BOM1, BOM2, BOM3>>

C13_EatBOM ==
  last.op = "eatBOM" =>
    rd.input = IF C13_HasBOM THEN SubSeq(C13_Stream, 4, Len(C13_Stream)) ELSE C13_Stream

\* the count of bytes at the start of the stream that begin the mark
C13_MarkPrefix ==
  IF C13_Stream = <<>> \/ C13_Stream[1] /= BOM1 THEN 0
  ELSE IF Len(C13_Stream) < 2 \/ C13_Stream[2] /= BOM2 THEN 1
  ELSE IF Len(C13_Stream) < 3 \/ C13_Stream[3] /= BOM3 THEN 2
  ELSE 3

\* what the code does: the bytes that begin the mark are consumed, whole or not
C13_EatBOMPrefix ==
  last.op = "eatBOM" =>
    /\ rd.input = SubSeq(C13_Stream, C13_MarkPrefix + 1, Len(C13_Stream))
    /\ last.ret = C13_HasBOM

\* of the stream EF BB x the scanner gets x only
C13_PrefixLost ==
  /\ last.op = "eatBOM"
  /\ C13_Stream = <<BOM1, BOM2, "x">>
  /\ rd.input = <<"x">>
  /\ ~last.ret

(***************************************************************************)
(* C20: the line scanner takes each of LF, CR and CR LF as one line        *)
(* terminator: the lines returned by successive calls are the segments     *)
(* between terminators, none holds a terminator byte, CR LF gives no extra *)
(* empty line, the byte after a lone CR begins the next line, and the      *)
(* lines together are the input without its terminators                    *)
(***************************************************************************)
C20_IsTerminator(b) == b \in {LF, CR}

\* the place of the first terminator byte, 0 when there is none
C20_FirstTerminator(b) ==
  IF \E i \in 1..Len(b) : C20_IsTerminator(b[i])
    THEN CHOOSE i \in 1..Len(b) :
           C20_IsTerminator(b[i]) /\ \A k \in 1..(i - 1) : ~C20_IsTerminator(b[k])
    ELSE 0

\* the bytes after the first terminator: LF, CR LF, or CR alone
C20_AfterFirst(b) ==
  LET i == C20_FirstTerminator(b)
  IN IF i = 0 THEN <<>>
     ELSE IF b[i] = CR /\ i < Len(b) /\ b[i + 1] = LF THEN SubSeq(b, i + 2, Len(b))
     ELSE SubSeq(b, i + 1, Len(b))

RECURSIVE C20_Split(_)
C20_Split(b) ==
  LET i == C20_FirstTerminator(b)
  IN IF i = 0 THEN <<b>>
     ELSE <<SubSeq(b, 1, i - 1)>> \o C20_Split(C20_AfterFirst(b))

RECURSIVE C20_Rest(_, _)
C20_Rest(b, n) == IF n = 0 THEN b ELSE C20_Rest(C20_AfterFirst(b), n - 1)

RECURSIVE C20_Concat(_)
C20_Concat(ls) == IF ls = <<>> THEN <<>> ELSE Head(ls) \o C20_Concat(Tail(ls))

C20_Strip(b) == SelectSeq(b, LAMBDA c : ~C20_IsTerminator(c))

C20_Segments == C20_Split(obj.start)

C20_Exhausted == phase = "scan" /\ rd.eof

C20_Scanner ==
  phase \in {"new", "scan"} =>
    /\ Len(obj.lines) <= Len(C20_Segments)
    /\ \A i \in 1..Len(obj.lines) :
         /\ obj.lines[i] = FromUTF8(C20_Segments[i])
         /\ \A k \in 1..Len(obj.lines[i]) : ~C20_IsTerminator(obj.lines[i][k])
    /\ rd.input = C20_Rest(obj.start, Len(obj.lines))
    /\ (last.op = "nextLine" /\ C20_FirstTerminator(last.pre.input) /= 0) =>
         LET i == C20_FirstTerminator(last.pre.input)
             b == last.pre.input
         IN (b[i] = CR /\ i < Len(b) /\ b[i + 1] /= LF) => rd.input[1] = b[i + 1]
    /\ C20_Exhausted =>
         /\ Len(obj.lines) >= Len(C20_Segments) - 1
         /\ Len(obj.lines) < Len(C20_Segments) =>
              C20_Segments[Len(C20_Segments)] = <<>>
         /\ C20_Concat(obj.lines) = FromUTF8(C20_Strip(obj.start))

\* x CR LF x CR x LF read to the end: three lines and an empty one
C20_Witness ==
  /\ C20_Exhausted
  /\ \E i \in 1..(Len(obj.start) - 1) : obj.start[i] = CR /\ obj.start[i + 1] = LF
  /\ \E i \in 1..(Len(obj.start) - 1) : obj.start[i] = CR /\ obj.start[i + 1] = "x"
  /\ Len(obj.lines) >= 3
  /\ obj.lines[2] = <<"x">>

(***************************************************************************)
(* C14: when enum decoding concludes with no offered candidate matched,    *)
(* the non-strict conclusion records exactly one warning on the reader,    *)
(* made of the text read and the first candidate offered, and raises no    *)
(* fatal error; with a match no warning is recorded; the strict conclusion *)
(* raises a fatal parse error with the same message instead                *)
(***************************************************************************)
C14_Concluded(op) == last.op = op /\ obj.stage = "concluded"

C14_Offered == obj.offered /= <<>>

C14_Matched == \E i \in 1..Len(obj.offered) : obj.offered[i] = obj.reader.read

C14_Message == <<obj.reader.read, obj.offered[1]>>

C14_Enum ==
  /\ (C14_Concluded("warnIfNotDone") /\ C14_Offered) =>
       /\ phase = "open"
       /\ obj.reader.done = C14_Matched
       /\ C14_Matched => rd.warnings = last.pre.warnings /\ obj.out = obj.reader.read
       /\ ~C14_Matched =>
            /\ Len(rd.warnings) = Len(last.pre.warnings) + 1
            /\ SubSeq(rd.warnings, 1, Len(last.pre.warnings)) = last.pre.warnings
            /\ rd.warnings[Len(rd.warnings)].kind = "unrecognized value"
            /\ rd.warnings[Len(rd.warnings)].text = C14_Message
            /\ obj.out = "default"
       /\ queue = last.pre_queue
  /\ (C14_Concluded("errorIfNotDone") /\ C14_Offered) =>
       /\ rd.warnings = last.pre.warnings
       /\ C14_Matched => phase = "open" /\ obj.message = <<>>
       /\ ~C14_Matched =>
            /\ phase = "failed"
            /\ rd.error = "unrecognized value"
            /\ obj.message = <<C14_Message>>

\* concluding before any candidate was offered is an internal error of the caller
C14_NothingOffered ==
  (obj.stage = "concluded" /\ ~C14_Offered) =>
    /\ phase = "failed"
    /\ rd.error = "No first value in EnumReader"
    /\ rd.warnings = last.pre.warnings

\* purple read, red, green and blue offered, concluded with a warning
C14_Witness ==
  /\ C14_Concluded("warnIfNotDone")
  /\ obj.reader.read = Purple
  /\ obj.offered = <<Red, Green, Blue>>
  /\ Len(rd.warnings) = 1
  /\ rd.warnings[1].text = <<Purple, Red>>
  /\ phase = "open"

\* the same decoding concluded under the strict policy
C14_WitnessStrict ==
  /\ C14_Concluded("errorIfNotDone")
  /\ obj.reader.read = Purple
  /\ obj.offered = <<Red, Green, Blue>>
  /\ phase = "failed"

(***************************************************************************)
(* C15: every recoverable diagnostic of a read, the notice of a document   *)
(* made by a newer version at construction included, goes to the reader's  *)
(* warning log and reaches the message queue only by showWarnings, which   *)
(* queues one message holding the log and clears it when the log is not    *)
(* empty and queues nothing when it is: without showWarnings no message    *)
(***************************************************************************)
C15_Flushed(q) ==
  /\ last.pre.warnings /= <<>> =>
       /\ q = Append(last.pre_queue, [type |-> "warnings", text |-> last.pre.warnings])
       /\ rd.warnings = <<>>
  /\ last.pre.warnings = <<>> => q = last.pre_queue /\ rd.warnings = <<>>

C15_Diagnostics ==
  /\ last.op = "showWarnings" => C15_Flushed(queue)
  /\ last.op /= "showWarnings" => queue = last.pre_queue
  /\ \A i \in 1..Len(queue) : queue[i].type = "warnings"

\* the queue without the notices of a newer version
C15_Warnings(q) == SelectSeq(q, LAMBDA m : m.type = "warnings")

C15_Newer == app_version < rd.file_app_version

\* what the code does: the notice is queued by the constructor, all else is logged
C15_DiagnosticsButNotice ==
  /\ last.op = "showWarnings" => C15_Flushed(queue)
  /\ last.op \notin {"showWarnings", "construct"} => queue = last.pre_queue
  /\ (last.op = "construct" /\ phase = "open") =>
       queue = IF C15_Newer
                 THEN <<[type |-> "newer version", text |-> <<rd.file_app_version>>]>>
                 ELSE <<>>
  /\ \A i \in 1..Len(queue) : queue[i].type = "newer version" => i = 1 /\ C15_Newer

\* a document of version 2 opened by version 1: the notice is in the queue
\* and not in the log before showWarnings was ever called
C15_NoticeQueued ==
  /\ last.op = "construct"
  /\ phase = "open"
  /\ C15_Newer
  /\ Len(queue) = 1
  /\ queue[1].type = "newer version"
  /\ rd.warnings = <<>>

\* a log of warnings flushed into one message
C15_FlushedSome ==
  /\ last.op = "showWarnings"
  /\ Len(last.pre.warnings) >= 2
  /\ rd.warnings = <<>>
  /\ Len(queue) = Len(last.pre_queue) + 1

(***************************************************************************)
(* C16: in a multi-line value the blank lines after the last non-blank     *)
(* sufficiently indented line are dropped, be they empty, of spaces only,  *)
(* or of tabs at or above the expected level: the text returned never ends *)
(* with a newline; a blank line between two sufficiently indented          *)
(* non-blank lines gives one embedded empty line                           *)
(***************************************************************************)
C16_Blank(text) == \A i \in 1..Len(text) : text[i] \in {TAB, SPC}

\* getValue() collected the lines under the key on line 1, entered at level 0
C16_Collected ==
  /\ Returned
  /\ last.op = "getValue"
  /\ last.pre.state = "ENTERED"
  /\ last.pre.value = <<>>
  /\ last.pre.line_number = 1
  /\ last.pre.expected_indent = 1

\* the last line of the block: the one before the first non-blank line under the level
C16_BlockEnd ==
  LET ends == {j \in 2..Len(doc.lines) :
                 ~C16_Blank(doc.lines[j]) /\ LeadingTabs(doc.lines[j]) < 1}
  IN IF ends = {} THEN Len(doc.lines) ELSE (CHOOSE j \in ends : \A k \in ends : j <= k) - 1

\* a sufficiently indented line, blank or not
C16_Indented(j) == LeadingTabs(doc.lines[j]) >= 1

\* a sufficiently indented non-blank line
C16_Content(j) == C16_Indented(j) /\ ~C16_Blank(doc.lines[j])

\* the greatest line of the block that satisfies P, 1 when there is none
C16_LastOf(P(_)) ==
  LET hits == {j \in 2..C16_BlockEnd : P(j)}
  IN IF hits = {} THEN 1 ELSE CHOOSE j \in hits : \A k \in hits : k <= j

\* line j as a line of the text: without the tabs of the level; a blank line
\* is an empty line, as_coded only when it has fewer tabs than the level
C16_Part(j, as_coded) ==
  IF (IF as_coded THEN C16_Indented(j) ELSE C16_Content(j))
    THEN SubSeq(doc.lines[j], 2, Len(doc.lines[j]))
    ELSE <<>>

RECURSIVE C16_Join(_, _, _)
C16_Join(from, to, as_coded) ==
  IF from > to THEN <<>>
  ELSE C16_Part(from, as_coded) \o (IF from < to THEN <<LF>> ELSE <<>>)
         \o C16_Join(from + 1, to, as_coded)

C16_EndsWithNewline(text) == text /= <<>> /\ text[Len(text)] = LF

C16_TrailingBlanksDropped ==
  C16_Collected =>
    /\ ~C16_EndsWithNewline(rd.previous_value)
    /\ (C16_BlockEnd >= 2 /\ C16_Content(2)) =>
         rd.previous_value = C16_Join(2, C16_LastOf(C16_Content), FALSE)

\* what the code does: a line of tabs up to the level or beyond is a line of the
\* text like any other; only the lines with fewer tabs are blank lines
C16_IndentedBlanksKept ==
  (C16_Collected /\ doc.final) =>
    rd.previous_value =
      IF C16_BlockEnd >= 2 /\ C16_Indented(2)
        THEN C16_Join(2, C16_LastOf(C16_Indented), TRUE)
        ELSE <<>>

\* x, then a line of one tab, then the key b: the text returned is x and a newline
C16_TabLineKept ==
  /\ C16_Collected
  /\ Len(doc.lines) >= 4
  /\ doc.lines[2] = LineTx /\ doc.lines[3] = LineTab /\ doc.lines[4] = LineB_x
  /\ rd.previous_value = <<"x", LF>>

\* x, an empty line, a line of spaces, x: two embedded empty lines
C16_EmbeddedBlanks ==
  /\ C16_Collected
  /\ doc.lines = <<LineA, LineTx, LineBlank, LineSpaces, LineTx>>
  /\ rd.previous_value = <<"x", LF, LF, LF, "x">>

(***************************************************************************)
(* C17: outside leniency mode every line that becomes the cursor's current *)
(* key line has a warning to use tabs recorded if its key part starts with *)
(* a space, and a warning of a missing colon if it holds none, also the    *)
(* key line that follows and ends a multi-line text value; the lines       *)
(* consumed as text produce neither warning                                *)
(***************************************************************************)
\* the cursor is on a key line of the document
C17_OnKeyLine ==
  /\ Returned
  /\ last.op /= "none"
  /\ rd.key /= <<>>
  /\ rd.indent >= 0
  /\ rd.line_number \in 1..Len(doc.lines)

C17_Line == doc.lines[rd.line_number]

C17_StartsWithSpace(text) ==
  LeadingTabs(text) < Len(text) /\ text[LeadingTabs(text) + 1] = SPC

C17_NoColon(text) == \A i \in 1..Len(text) : text[i] /= COLON

C17_Warned(kind, line) ==
  \E i \in 1..Len(rd.warnings) : rd.warnings[i].kind = kind /\ rd.warnings[i].line = line

\* the warnings recorded by the last operation
C17_New == SubSeq(rd.warnings, Len(last.pre.warnings) + 1, Len(rd.warnings))

C17_KeyKinds == {"only use TABs", "Missing ':'"}

\* the last operation collected a multi-line text value
C17_TextRead ==
  last.op = "getValue" /\ last.pre.state = "ENTERED" /\ last.pre.value = <<>>

C17_KeyLinesWarned ==
  /\ (C17_OnKeyLine /\ ~rd.ignore_invalid) =>
       /\ C17_StartsWithSpace(C17_Line) => C17_Warned("only use TABs", rd.line_number)
       /\ C17_NoColon(C17_Line) => C17_Warned("Missing ':'", rd.line_number)
  /\ (Returned /\ C17_TextRead) =>
       \A i \in 1..Len(C17_New) :
         C17_New[i].kind \in C17_KeyKinds => C17_New[i].line = rd.line_number

\* what the code does: a key line is warned about when it was read as a key line,
\* and the line that ends a text value was read as a line of text
C17_KeyLinesWarnedUnlessAfterText ==
  /\ (C17_OnKeyLine /\ ~rd.ignore_invalid /\ ~rd.in_string) =>
       /\ C17_StartsWithSpace(C17_Line) => C17_Warned("only use TABs", rd.line_number)
       /\ C17_NoColon(C17_Line) => C17_Warned("Missing ':'", rd.line_number)
  /\ (C17_OnKeyLine /\ rd.in_string) =>
       \A k \in C17_KeyKinds : ~C17_Warned(k, rd.line_number)
  /\ (Returned /\ C17_TextRead) =>
       \A i \in 1..Len(C17_New) :
         C17_New[i].kind \in C17_KeyKinds => C17_New[i].line = rd.line_number
  /\ (Returned /\ rd.ignore_invalid) =>
       \A k \in C17_KeyKinds : \A j \in 1..Len(doc.lines) : ~C17_Warned(k, j)

\* the text x under a: is ended by the key line b without a colon: no warning
C17_AfterTextUnwarned ==
  /\ C17_OnKeyLine
  /\ ~rd.ignore_invalid
  /\ C17_TextRead
  /\ doc.lines[2] = LineTx
  /\ rd.previous_value = <<"x">>
  /\ C17_Line = LineB
  /\ rd.warnings = <<>>

\* the same key line reached from a key is warned about
C17_AfterKeyWarned ==
  /\ C17_OnKeyLine
  /\ ~rd.ignore_invalid
  /\ last.op = "getValue"
  /\ C17_Line = LineB
  /\ C17_Warned("Missing ':'", rd.line_number)

(***************************************************************************)
(* C18: an advance that finds no further non-blank line sets indent to -1  *)
(* and leaves the key empty; after every operation indent is -1 exactly    *)
(* when there is no current key line; and from then on indent stays -1 and *)
(* enterBlock and enterAnyBlock return false and leave expected_indent     *)
(***************************************************************************)
\* every line of the document after line `after` is blank
C18_NoMoreKeys(after) ==
  \A j \in (after + 1)..Len(doc.lines) : BlankOrComment(doc.lines[j])

\* the last operation moved the cursor
C18_Advanced == last.op = "construct" \/ rd.line_number /= last.pre.line_number

C18_AtSentinel(r) == r.indent = -1

C18_SentinelAtEnd ==
  (Returned /\ last.op /= "none") =>
    /\ (C18_Advanced /\ C18_NoMoreKeys(last.pre.line_number)) =>
         C18_AtSentinel(rd) /\ rd.key = <<>>
    /\ C18_AtSentinel(rd) <=> rd.key = <<>>
    /\ C18_AtSentinel(rd) => rd.eof /\ rd.input = <<>>

C18_Absorbing ==
  (phase = "open" /\ C18_AtSentinel(rd)) =>
    /\ phase' = "open"
    /\ C18_AtSentinel(rd')
    /\ rd'.key = <<>>
    /\ last'.op \in {"enterBlock", "enterAnyBlock"} =>
         /\ ~last'.ret
         /\ rd'.expected_indent = rd.expected_indent
         /\ open' = open

C18_Sentinel == [](C18_SentinelAtEnd) /\ [][C18_Absorbing]_vars

\* the document ends with a blank line; at the sentinel, inside a block, an
\* enterAnyBlock was refused
C18_Witness ==
  /\ Returned
  /\ last.op = "enterAnyBlock"
  /\ C18_AtSentinel(last.pre)
  /\ C18_AtSentinel(rd)
  /\ ~last.ret
  /\ rd.expected_indent = 1
  /\ doc.lines[Len(doc.lines)] = LineBlank

(***************************************************************************)
(* C19: on a finite stream each operation of the reader terminates:        *)
(* construction, moveNext, enterBlock, enterAnyBlock, exitBlock,           *)
(* unknownKey in either mode, and getValue with its multi-line collection  *)
(***************************************************************************)
\* no operation is stopped for its count of steps
C19_Bounded == pc.steps < MaxSteps

\* the stream is never longer after a step
C19_Forward == Len(rd'.input) <= Len(rd.input) /\ (rd.eof => rd'.eof)

\* what an operation leaves when it has returned is what the operation does as a whole
C19_AsAWhole ==
  (phase = "open" /\ last.op /= "none") =>
    CASE last.op = "construct" ->
           LET c == Construct(last.pre, last.pre_queue, app_version)
           IN rd = c.r /\ queue = c.queue
      [] last.op = "enterAnyBlock" ->
           LET e == enterAnyBlock(last.pre) IN rd = e.r /\ pc.ret = e.ret
      [] last.op = "enterBlock" ->
           LET e == enterBlock(last.pre, last.name) IN rd = e.r /\ pc.ret = e.ret
      [] last.op = "exitBlock" -> rd = exitBlock(last.pre)
      [] last.op = "unknownKey" -> rd = unknownKey(last.pre)
      [] last.op = "getValue" -> rd = getValue(last.pre)
      [] OTHER -> TRUE

C19_Terminates ==
  /\ [](C19_Bounded /\ C19_AsAWhole)
  /\ [][C19_Forward]_vars
  /\ Running ~> ~Running

\* exitBlock has left its key, dumped the rest of the block in several turns of
\* its loop and returned with the cursor at the end of the stream
C19_Witness ==
  /\ phase = "open"
  /\ pc.stack = <<>>
  /\ last.op = "exitBlock"
  /\ last.pre.state = "ENTERED"
  /\ rd.line_number >= last.pre.line_number + 3
  /\ rd.indent = -1
  /\ pc.steps >= 8

====
